---- MODULE Spec2Model ----
(***************************************************************************)
(* A model of the parties247 fetcher: the admin backend client of          *)
(* jobs/backend.py (PartiesAdminClient); the slug extraction, the          *)
(* affiliate tagging and the GoOutFetcher of jobs/go_out.py; the run_job   *)
(* functions of the three jobs; the authentication bootstrap and the       *)
(* fetch_events of jobs/my_events.py; and run() of main.py.  Each part has *)
(* its own specification (Spec, SpecSlug, SpecAff, SpecFetch, SpecJobs,    *)
(* SpecAuth, SpecMain, SpecEvents) over the same variables; the parts a    *)
(* specification does not run stay idle.                                   *)
(*                                                                         *)
(* The backend client is single threaded and every HTTP exchange is        *)
(* synchronous, so a call is modelled as a sequence of steps: the entry of  *)
(* the method up to its first HTTP exchange, then one step per exchange    *)
(* (request sent, response received, response acted upon up to the next    *)
(* exchange or the end of the call).  The response of the backend is an    *)
(* input of the step.                                                      *)
(***************************************************************************)
EXTENDS Integers, Sequences, FiniteSets, TLC

VARIABLES
    token,      \* PartiesAdminClient._token (None or a non-empty string)
    op,         \* the public method being executed: login/import/add/batch
    pc,         \* position inside the method
    args,       \* the arguments of the call
    idx,        \* add_party_urls: index of the URL being processed
    reqs,       \* the requests this call has sent so far, in order
    outcome,    \* "none" while running, then "returned" or "raised"
    exc,        \* the exception raised, when outcome = "raised"
    results,    \* add_party_url / add_party_urls: the result mappings
    ret,        \* import_carousel_urls: the JSON body returned
    lastResp,   \* the last response a request of the call's own endpoint got
    tokenAtCall,\* the client's token when the call started
    lastLogin,  \* token returned by the client's most recent successful login
    item,       \* slug extraction: the raw event handed to the extractor
    slug,       \* slug extraction: the value returned
    spc,        \* slug extraction: "input" before the call, "done" after
    affUrl,     \* affiliate tagging: the URL before any tagging
    affTags,    \* affiliate tagging: the referrals applied so far, in order
    affOut,     \* affiliate tagging: the URL after the taggings so far
    fReferral,  \* GoOutFetcher.referral
    fMethod,    \* the fetch method called: nightlife or weekend
    fpc,        \* position inside the fetch: idle/primary/fallback/done
    fReqs,      \* the requests the fetch has sent so far, in order
    fPrimary,   \* how the primary API request ended
    fFallback,  \* how the GET of the HTML page ended
    fUrls,      \* the list the fetch returned
    fExc,       \* "none", or the exception the fetch raised
    jJob,       \* the job whose run_job was called: nightlife/weekend/my_events
    jKwargs,    \* the names of the keyword arguments of the call
    jReferral,  \* the referral argument of the call (None when not passed)
    jpc,        \* position inside run_job
    jFetcher,   \* the referral of the GoOutFetcher the job constructed, if any
    jFetches,   \* how many times the job asked its data source for events
    jData,      \* my_events: the payload fetch_events returned
    jCalls,     \* the calls made on the admin client, in order
    jFiles,     \* the files the job wrote
    jResult,    \* "none" while running, then "records", "data" or "raised"
    jRecords,   \* the records the job built
    jExc,       \* "none", or the exception run_job raised
    aDir,       \* whether the directory auth_payload exists
    aTokenFile, \* auth_payload/token.txt: absent, or its content
    aCookiesFile, \* auth_payload/cookies.json: absent, or the mapping it holds
    aEnv,       \* the environment variable GOOUT_TOKEN: unset, or its value
    aPc,        \* position inside _ensure_auth_payload_initialized
    aCalls,     \* how many calls of it were started
    aAtCall,    \* the directory and the two files as the call found them
    aEnvRead,   \* whether the call has read GOOUT_TOKEN
    aFactory,   \* how many times the call has asked the factory for a driver
    aDrv,       \* the calls made on the driver, in order, with their outcome
    aPending,   \* the exception that leaves the browser session after quit
    aRaw,       \* what driver.get_cookies() returned
    aResult,    \* "none" while running, then "returned" or "raised"
    aExc,       \* "none", or the exception the call raised
    aPrev,      \* the result of the previous call, "none" before the first
    mReferral,  \* the referral main.run was called with
    mpc,        \* position inside main.run
    mRan,       \* the run_job calls main.run made, in order, with their arguments
    mCollections, \* the list "collections" of main.run
    mMerged,    \* what main.run returned
    mResult,    \* "none" while running, then "returned" or "raised"
    mExc,       \* "none", or the exception main.run raised
    eSession,   \* the session my_events.fetch_events works with
    eCreds,     \* whether GOOUT_EMAIL and GOOUT_PASSWORD are both set
    ePc,        \* position inside my_events.fetch_events
    eReqs,      \* the requests fetch_events sent, in order
    eHeader,    \* the token in headers["Authorization"]
    eRenewals,  \* how many times renew_token_from_env was called
    eReply,     \* the reply to the login POST of the renewal
    eAtCall,    \* token.txt as the first GET found it
    eResult,    \* "none" while running, then "returned" or "raised"
    eExc        \* "none", or the exception fetch_events raised

vars == <<token, op, pc, args, idx, reqs, outcome, exc, results, ret,
          lastResp, tokenAtCall, lastLogin, item, slug, spc,
          affUrl, affTags, affOut,
          fReferral, fMethod, fpc, fReqs, fPrimary, fFallback, fUrls, fExc,
          jJob, jKwargs, jReferral, jpc, jFetcher, jFetches, jData, jCalls,
          jFiles, jResult, jRecords, jExc,
          aDir, aTokenFile, aCookiesFile, aEnv, aPc, aCalls, aAtCall, aEnvRead,
          aFactory, aDrv, aPending, aRaw, aResult, aExc, aPrev,
          mReferral, mpc, mRan, mCollections, mMerged, mResult, mExc,
          eSession, eCreds, ePc, eReqs, eHeader, eRenewals, eReply, eAtCall,
          eResult, eExc>>

backendVars == <<token, op, pc, args, idx, reqs, outcome, exc, results, ret,
                 lastResp, tokenAtCall, lastLogin>>
slugVars == <<item, slug, spc>>
affVars == <<affUrl, affTags, affOut>>
fetchVars == <<fReferral, fMethod, fpc, fReqs, fPrimary, fFallback, fUrls, fExc>>
authVars == <<aDir, aTokenFile, aCookiesFile, aEnv, aPc, aCalls, aAtCall, aEnvRead,
              aFactory, aDrv, aPending, aRaw, aResult, aExc, aPrev>>
mainVars == <<mReferral, mpc, mRan, mCollections, mMerged, mResult, mExc>>
eventsVars == <<eSession, eCreds, ePc, eReqs, eHeader, eRenewals, eReply, eAtCall,
                eResult, eExc>>
jobVars == <<jJob, jKwargs, jReferral, jpc, jFetcher, jFetches, jData, jCalls,
             jFiles, jResult, jRecords, jExc>>

(***************************************************************************)
(* Bounds of the model.                                                    *)
(***************************************************************************)
MaxUrls == 2        \* longest URL list handed to add_party_urls
MaxTextLen == 4     \* longest enumerated string value of a one-key raw event
MaxKeys == 2        \* most keys of a raw event with values of mixed kinds
MaxParams == 3      \* most "&"-separated pieces in the query of a URL to tag
MaxTags == 2        \* most taggings applied to one URL in a row
MaxEvents == 3      \* most raw events in the events list of an API response
MaxLinks == 3       \* most chunks the HTML page of the fallback is made of
MaxCookies == 2     \* most entries in the list driver.get_cookies() returns
MaxCalls == 2       \* most consecutive calls of _ensure_auth_payload_initialized

(***************************************************************************)
(* Values.  Python's None is a string no token, URL or detail equals; an   *)
(* optional JSON field is the empty sequence when the key is absent and a  *)
(* one-element sequence holding its value otherwise.                       *)
(***************************************************************************)
None == "<None>"
Absent == << >>
Some(x) == <<x>>

Tokens == {"t1", "t2"}
Urls == {"", "u1", "u2"}
CarouselNames == {"", "nightlife"}
Referrals == {None, "ref"}
UrlLists == {<< >>, <<"u1">>}

\* HTTP statuses the backend may answer with.
Statuses == {200, 401, 409, 500}

\* Response bodies.  kind: "invalid" is a body json.loads rejects, "nonobj"
\* a JSON value that is not an object, "obj" a JSON object.  A field holding
\* "" stands for any falsy JSON value (null, "", 0, false).
Body(kind, tok, detail, sc) ==
    [kind |-> kind, token |-> tok, detail |-> detail, status_code |-> sc]

LoginBodies ==
    {Body("invalid", Absent, Absent, Absent), Body("nonobj", Absent, Absent, Absent)}
    \cup {Body("obj", t, Absent, Absent) : t \in {Absent, Some("")} \cup {Some(x) : x \in Tokens}}

ApiBodies ==
    {Body("invalid", Absent, Absent, Absent), Body("nonobj", Absent, Absent, Absent)}
    \cup {Body("obj", Absent, d, s) : d \in {Absent, Some(""), Some("d1")},
                                      s \in {Absent, Some(500)}}

LoginResponses == [status : Statuses, body : LoginBodies]
ApiResponses == [status : Statuses, body : ApiBodies]

\* The bodies the add-party endpoint answers a URL of add_party_urls with.
BatchBodies ==
    {Body("invalid", Absent, Absent, Absent), Body("obj", Absent, Absent, Absent)}
BatchResponses == [status : Statuses, body : BatchBodies]
\* No response at all: the session raised RequestException (a transport failure).
NoResponse == [status |-> 0, body |-> Body("invalid", Absent, Absent, Absent)]

\* The arguments of a call / the JSON payload of a request.
Payload(url, carousel, referral, urls) ==
    [url |-> url, carouselName |-> carousel, referral |-> referral, urls |-> urls]
NoArgs == Payload("", "", None, << >>)

Request(ep, payload, auth, status) ==
    [ep |-> ep, json |-> payload, auth |-> auth, status |-> status]

(***************************************************************************)
(* requests.Response.raise_for_status: the session stores an error on the  *)
(* response exactly when urlopen raised HTTPError, which it does for every *)
(* final status outside 200..299.                                          *)
(***************************************************************************)
raise_for_status(status) == ~(200 <= status /\ status < 300)

\* str(exc) of the HTTPError the session attached to the response.
HTTPErrorText(status) == "HTTP Error " \o ToString(status)

\* A variant of login that lets raise_for_status run before the 401 test.
login_status_first(resp) ==
    IF resp = NoResponse
    THEN [exc |-> "RequestException", token |-> None]
    ELSE IF raise_for_status(resp.status)
    THEN [exc |-> "HTTPError", token |-> None]
    ELSE IF resp.body.kind = "invalid"
    THEN [exc |-> "JSONDecodeError", token |-> None]
    ELSE IF resp.body.kind # "obj" \/ resp.body.token = Absent
            \/ resp.body.token = Some("")
    THEN [exc |-> "BackendAuthenticationError", token |-> None]
    ELSE [exc |-> "none", token |-> resp.body.token[1]]

(***************************************************************************)
(* PartiesAdminClient.login, after the password was found: what the        *)
(* exchange leads to.  exc = "none" means the token is stored and returned.*)
(***************************************************************************)
login(resp) ==
    IF resp = NoResponse
    THEN [exc |-> "RequestException", token |-> None]
    ELSE IF resp.status = 401
    THEN [exc |-> "BackendAuthenticationError", token |-> None]
    ELSE IF raise_for_status(resp.status)
    THEN [exc |-> "HTTPError", token |-> None]
    ELSE IF resp.body.kind = "invalid"
    THEN [exc |-> "JSONDecodeError", token |-> None]
    ELSE IF resp.body.kind # "obj" \/ resp.body.token = Absent
            \/ resp.body.token = Some("")
    THEN [exc |-> "BackendAuthenticationError", token |-> None]
    ELSE [exc |-> "none", token |-> resp.body.token[1]]

\* A variant of _authorization_header that never logs in.
never_needs_login(tok) == FALSE

(***************************************************************************)
(* PartiesAdminClient._authorization_header logs in when no token is held. *)
(***************************************************************************)
needs_login(tok) == tok = None

\* {"Authorization": f"Bearer {self._token}"}: the headers of an endpoint
\* request; a login request carries no headers.
authorization_header(tok) == <<"Bearer", tok>>
NoHeaders == << >>

(***************************************************************************)
(* add_party_url from the final response on: the mapping returned, or the  *)
(* exception raised.                                                       *)
(***************************************************************************)
AddResult(sc, detail) == [status_code |-> sc, detail |-> detail]
NoResult == AddResult(0, None)

\* dict.setdefault on the two keys the client fills in.
setdefault(body, sc, detail) ==
    AddResult(IF body.status_code = Absent THEN sc ELSE body.status_code[1],
              IF body.detail = Absent THEN detail ELSE body.detail[1])

EmptyObject == Body("obj", Absent, Absent, Absent)

\* A variant of add_party_url without the "except requests.HTTPError" handler.
add_party_url_raising(resp) ==
    IF resp.status = 409
    THEN [exc |-> "none",
          result |-> setdefault(IF resp.body.kind = "obj" THEN resp.body ELSE EmptyObject,
                                resp.status, "Party already added")]
    ELSE IF raise_for_status(resp.status)
    THEN [exc |-> "HTTPError", result |-> NoResult]
    ELSE IF resp.body.kind = "invalid"
    THEN [exc |-> "BackendError", result |-> NoResult]
    ELSE [exc |-> "none",
          result |-> setdefault(IF resp.body.kind = "obj" THEN resp.body ELSE EmptyObject,
                                resp.status, "Party added successfully")]

add_party_url_finish(resp) ==
    IF resp.status = 409
    THEN [exc |-> "none",
          result |-> setdefault(IF resp.body.kind = "obj" THEN resp.body ELSE EmptyObject,
                                resp.status, "Party already added")]
    ELSE IF raise_for_status(resp.status)
    THEN [exc |-> "none",
          result |-> AddResult(resp.status,
                        IF resp.body.kind = "obj" /\ resp.body.detail # Absent
                           /\ resp.body.detail # Some("")
                        THEN resp.body.detail[1]
                        ELSE HTTPErrorText(resp.status))]
    ELSE IF resp.body.kind = "invalid"
    THEN [exc |-> "BackendError", result |-> NoResult]
    ELSE [exc |-> "none",
          result |-> setdefault(IF resp.body.kind = "obj" THEN resp.body ELSE EmptyObject,
                                resp.status, "Party added successfully")]

\* A variant of import_carousel_urls that lets a 409 through like add_party_url.
import_carousel_urls_conflict_ok(resp) ==
    IF raise_for_status(resp.status) /\ resp.status # 409
    THEN [exc |-> "HTTPError", body |-> NoResponse.body]
    ELSE IF resp.body.kind = "invalid"
    THEN [exc |-> "BackendError", body |-> NoResponse.body]
    ELSE [exc |-> "none", body |-> resp.body]

(***************************************************************************)
(* import_carousel_urls from the final response on.                        *)
(***************************************************************************)
import_carousel_urls_finish(resp) ==
    IF raise_for_status(resp.status)
    THEN [exc |-> "HTTPError", body |-> NoResponse.body]
    ELSE IF resp.body.kind = "invalid"
    THEN [exc |-> "BackendError", body |-> NoResponse.body]
    ELSE [exc |-> "none", body |-> resp.body]

(***************************************************************************)
(* The client, step by step.                                               *)
(***************************************************************************)
Idle == pc = "idle"

Endpoint == IF op = "import" THEN "import" ELSE "add"

\* A variant of the loop of add_party_urls that posts the first URL every time.
CurrentPayloadFirst ==
    IF op = "import" THEN args
    ELSE IF op = "batch" THEN Payload(args.urls[1], "", None, << >>)
    ELSE Payload(args.url, "", None, << >>)

\* The JSON payload of the endpoint request being sent.
CurrentPayload ==
    IF op = "import" THEN args
    ELSE IF op = "batch" THEN Payload(args.urls[idx], "", None, << >>)
    ELSE Payload(args.url, "", None, << >>)

UrlSeqs == UNION {[1..n -> Urls] : n \in 0..MaxUrls}

\* A call begins: the state a fresh invocation starts from.
Begin(o, a) ==
    /\ Idle
    /\ op' = o
    /\ args' = a
    /\ results' = << >>
    /\ ret' = NoResponse.body
    /\ tokenAtCall' = token

Raise(e) == outcome' = "raised" /\ exc' = e /\ pc' = "done"
Return == outcome' = "returned" /\ exc' = "none" /\ pc' = "done"
Continue(p) == outcome' = "none" /\ exc' = "none" /\ pc' = p

\* A variant of the argument check that lets every argument through.
provided_always(x) == TRUE

\* "if not carousel_name" / "if not url": an empty argument is rejected.
provided(x) == x # ""

\* login() called on its own.
CallLogin ==
    /\ Begin("login", NoArgs)
    /\ idx' = 0
    /\ UNCHANGED slugVars
    /\ UNCHANGED affVars
    /\ UNCHANGED fetchVars
    /\ UNCHANGED jobVars
    /\ UNCHANGED authVars
    /\ UNCHANGED mainVars
    /\ UNCHANGED eventsVars
    /\ \E havePassword \in BOOLEAN, resp \in LoginResponses \cup {NoResponse} :
        \* get_admin_password raises when neither the environment nor .env has it
        IF ~havePassword
        THEN /\ Raise("BackendAuthenticationError")
             /\ reqs' = << >>
             /\ lastResp' = NoResponse
             /\ UNCHANGED <<token, lastLogin>>
        ELSE LET r == login(resp) IN
             /\ reqs' = <<Request("login", NoArgs, NoHeaders, resp.status)>>
             /\ lastResp' = resp
             /\ IF r.exc = "none"
                THEN Return /\ token' = r.token /\ lastLogin' = r.token
                ELSE Raise(r.exc) /\ UNCHANGED <<token, lastLogin>>

\* Where a call stands once its arguments are validated: the next exchange is
\* a login when _authorization_header finds no token, the endpoint POST otherwise.
Authorize(first) ==
    IF needs_login(token)
    THEN Continue(IF first THEN "login1" ELSE "login2")
    ELSE Continue(IF first THEN "post1" ELSE "post2")

\* import_carousel_urls(carousel_name, referral, urls) is called.
CallImport ==
    /\ reqs' = << >>
    /\ lastResp' = NoResponse
    /\ \E c \in CarouselNames, r \in Referrals, us \in UrlLists :
          Begin("import", Payload("", c, r, us))
          /\ IF ~provided(c) THEN Raise("ValueError") ELSE Authorize(TRUE)
    /\ idx' = 0
    /\ UNCHANGED <<token, lastLogin>>
    /\ UNCHANGED slugVars
    /\ UNCHANGED affVars
    /\ UNCHANGED fetchVars
    /\ UNCHANGED jobVars
    /\ UNCHANGED authVars
    /\ UNCHANGED mainVars
    /\ UNCHANGED eventsVars

\* add_party_url(url) is called.
CallAddPartyUrl ==
    /\ reqs' = << >>
    /\ lastResp' = NoResponse
    /\ \E u \in Urls :
          Begin("add", Payload(u, "", None, << >>))
          /\ IF ~provided(u) THEN Raise("ValueError") ELSE Authorize(TRUE)
    /\ idx' = 0
    /\ UNCHANGED <<token, lastLogin>>
    /\ UNCHANGED slugVars
    /\ UNCHANGED affVars
    /\ UNCHANGED fetchVars
    /\ UNCHANGED jobVars
    /\ UNCHANGED authVars
    /\ UNCHANGED mainVars
    /\ UNCHANGED eventsVars

\* add_party_urls(urls) is called: the loop enters add_party_url for urls[1].
CallAddPartyUrls ==
    /\ reqs' = << >>
    /\ lastResp' = NoResponse
    /\ \E us \in UrlSeqs :
          Begin("batch", Payload("", "", None, us))
          /\ IF us = << >> THEN Return
             ELSE IF ~provided(us[1]) THEN Raise("ValueError")
             ELSE Authorize(TRUE)
    /\ idx' = 1
    /\ UNCHANGED <<token, lastLogin>>
    /\ UNCHANGED slugVars
    /\ UNCHANGED affVars
    /\ UNCHANGED fetchVars
    /\ UNCHANGED jobVars
    /\ UNCHANGED authVars
    /\ UNCHANGED mainVars
    /\ UNCHANGED eventsVars

\* _authorization_header found no token: login() runs inside the call.
LoginStep ==
    /\ pc \in {"login1", "login2"}
    /\ UNCHANGED <<op, args, idx, results, ret, lastResp, tokenAtCall>>
    /\ UNCHANGED slugVars
    /\ UNCHANGED affVars
    /\ UNCHANGED fetchVars
    /\ UNCHANGED jobVars
    /\ UNCHANGED authVars
    /\ UNCHANGED mainVars
    /\ UNCHANGED eventsVars
    /\ \E havePassword \in BOOLEAN, resp \in LoginResponses \cup {NoResponse} :
        \* get_admin_password raises when neither the environment nor .env has it
        IF ~havePassword
        THEN Raise("BackendAuthenticationError") /\ UNCHANGED <<token, lastLogin, reqs>>
        ELSE LET r == login(resp) IN
             /\ reqs' = Append(reqs, Request("login", NoArgs, NoHeaders, resp.status))
             /\ IF r.exc = "none"
                THEN /\ Continue(IF pc = "login1" THEN "post1" ELSE "post2")
                     /\ token' = r.token
                     /\ lastLogin' = r.token
                ELSE Raise(r.exc) /\ UNCHANGED <<token, lastLogin>>

\* A variant of the loop of add_party_urls that steps over a URL whose
\* processing raised and goes on with the next one.
FinishAdd_skipping(f) ==
    IF op = "add"
    THEN IF f.exc # "none"
         THEN Raise(f.exc) /\ results' = << >> /\ UNCHANGED idx
         ELSE Return /\ results' = <<f.result>> /\ UNCHANGED idx
    ELSE /\ results' = IF f.exc # "none" THEN results ELSE Append(results, f.result)
         /\ idx' = idx + 1
         /\ IF idx = Len(args.urls) THEN Return
            ELSE IF ~provided(args.urls[idx + 1]) THEN Raise("ValueError")
            ELSE Authorize(TRUE)

\* The result of one URL is in: add_party_url returns (op = "add"), or the
\* loop of add_party_urls appends it and enters add_party_url for the next URL.
FinishAdd(f) ==
    IF f.exc # "none"
    THEN Raise(f.exc) /\ results' = << >> /\ UNCHANGED idx
    ELSE IF op = "add"
    THEN Return /\ results' = <<f.result>> /\ UNCHANGED idx
    ELSE /\ results' = Append(results, f.result)
         /\ idx' = idx + 1
         /\ IF idx = Len(args.urls) THEN Return
            ELSE IF ~provided(args.urls[idx + 1]) THEN Raise("ValueError")
            ELSE Authorize(TRUE)

FinishImport(f) ==
    /\ UNCHANGED <<idx, results>>
    /\ IF f.exc # "none" THEN Raise(f.exc) /\ UNCHANGED ret
       ELSE Return /\ ret' = f.body

\* A variant that re-authenticates on every 401, the retried POST's included.
token_expired_always(attempt, status) == status = 401

\* "if response.status_code == 401" sits after the first POST only: the
\* retried POST's response is never examined for 401.
token_expired(attempt, status) == attempt = "post1" /\ status = 401

\* The endpoint POST is sent and answered.  A 401 on the first attempt clears
\* the token and goes back to _authorization_header; any other response is final.
PostStep ==
    /\ pc \in {"post1", "post2"}
    /\ UNCHANGED <<op, args, tokenAtCall, lastLogin>>
    /\ UNCHANGED slugVars
    /\ UNCHANGED affVars
    /\ UNCHANGED fetchVars
    /\ UNCHANGED jobVars
    /\ UNCHANGED authVars
    /\ UNCHANGED mainVars
    /\ UNCHANGED eventsVars
    /\ \E resp \in (IF op = "batch" THEN BatchResponses ELSE ApiResponses)
                    \cup {NoResponse} :
        /\ reqs' = Append(reqs, Request(Endpoint, CurrentPayload,
                                        authorization_header(token), resp.status))
        /\ lastResp' = resp
        /\ IF resp = NoResponse
           THEN /\ Raise("RequestException")
                /\ results' = << >>
                /\ UNCHANGED <<token, idx, ret>>
           ELSE IF token_expired(pc, resp.status)
           THEN /\ token' = None
                /\ UNCHANGED <<idx, results, ret>>
                /\ IF needs_login(None) THEN Continue("login2") ELSE Continue("post2")
           ELSE /\ UNCHANGED token
                /\ IF op = "import"
                   THEN FinishImport(import_carousel_urls_finish(resp))
                   ELSE FinishAdd(add_party_url_finish(resp)) /\ UNCHANGED ret

\* The call is over: its caller has the result (or the exception) and the
\* client is ready for the next call.  Only the token outlives the call.
ReturnToCaller ==
    /\ pc = "done"
    /\ pc' = "idle"
    /\ op' = "none"
    /\ args' = NoArgs
    /\ idx' = 0
    /\ reqs' = << >>
    /\ outcome' = "none"
    /\ exc' = "none"
    /\ results' = << >>
    /\ ret' = NoResponse.body
    /\ lastResp' = NoResponse
    /\ tokenAtCall' = None
    /\ UNCHANGED <<token, lastLogin>>
    /\ UNCHANGED slugVars
    /\ UNCHANGED affVars
    /\ UNCHANGED fetchVars
    /\ UNCHANGED jobVars
    /\ UNCHANGED authVars
    /\ UNCHANGED mainVars
    /\ UNCHANGED eventsVars

InitBackend ==
    /\ token = None
    /\ op = "none"
    /\ pc = "idle"
    /\ args = NoArgs
    /\ idx = 0
    /\ reqs = << >>
    /\ outcome = "none"
    /\ exc = "none"
    /\ results = << >>
    /\ ret = NoResponse.body
    /\ lastResp = NoResponse
    /\ tokenAtCall = None
    /\ lastLogin = None

InitSlugIdle ==
    /\ item = [mapping |-> FALSE, fields |-> << >>]
    /\ slug = << >>
    /\ spc = "idle"

InitAffIdle ==
    /\ affUrl = << >>
    /\ affTags = << >>
    /\ affOut = << >>

\* How an HTTP exchange of the fetcher ended; NoExchange before it took place.
Exchange(kind, status, json, events, text) ==
    [kind |-> kind, status |-> status, json |-> json, events |-> events, text |-> text]
EventsValue(t, items) == [t |-> t, items |-> items]
NoExchange == Exchange("none", 0, "none", EventsValue("absent", << >>), << >>)

InitFetchIdle ==
    /\ fReferral = Absent
    /\ fMethod = "none"
    /\ fpc = "idle"
    /\ fReqs = << >>
    /\ fPrimary = NoExchange
    /\ fFallback = NoExchange
    /\ fUrls = << >>
    /\ fExc = "none"

InitJobIdle ==
    /\ jJob = "none"
    /\ jKwargs = {}
    /\ jReferral = Absent
    /\ jpc = "idle"
    /\ jFetcher = Absent
    /\ jFetches = 0
    /\ jData = NoExchange
    /\ jCalls = << >>
    /\ jFiles = {}
    /\ jResult = "none"
    /\ jRecords = << >>
    /\ jExc = "none"

\* The directory and the two files of the authentication payload.
Payload3(dir, tokenFile, cookiesFile) ==
    [dir |-> dir, token |-> tokenFile, cookies |-> cookiesFile]

InitAuthIdle ==
    /\ aDir = FALSE
    /\ aTokenFile = Absent
    /\ aCookiesFile = Absent
    /\ aEnv = Absent
    /\ aPc = "idle"
    /\ aCalls = 0
    /\ aAtCall = Payload3(FALSE, Absent, Absent)
    /\ aEnvRead = FALSE
    /\ aFactory = 0
    /\ aDrv = << >>
    /\ aPending = "none"
    /\ aRaw = Absent
    /\ aResult = "none"
    /\ aExc = "none"
    /\ aPrev = "none"

InitMainIdle ==
    /\ mReferral = Absent
    /\ mpc = "idle"
    /\ mRan = << >>
    /\ mCollections = << >>
    /\ mMerged = << >>
    /\ mResult = "none"
    /\ mExc = "none"

\* The reply to a login POST of my_events; NoReply before it came.
Reply(kind, status, tok, access) ==
    [kind |-> kind, status |-> status, token |-> tok, access_token |-> access]
NoReply == Reply("none", 0, Absent, Absent)

InitEventsIdle ==
    /\ eSession = "none"
    /\ eCreds = FALSE
    /\ ePc = "idle"
    /\ eReqs = << >>
    /\ eHeader = None
    /\ eRenewals = 0
    /\ eReply = NoReply
    /\ eAtCall = Absent
    /\ eResult = "none"
    /\ eExc = "none"

Init ==
    InitBackend /\ InitSlugIdle /\ InitAffIdle /\ InitFetchIdle /\ InitJobIdle
    /\ InitAuthIdle /\ InitMainIdle /\ InitEventsIdle

Next ==
    \/ CallLogin
    \/ CallImport
    \/ CallAddPartyUrl
    \/ CallAddPartyUrls
    \/ LoginStep
    \/ PostStep
    \/ ReturnToCaller

Spec == Init /\ [][Next]_vars

(***************************************************************************)
(* What a finished call left in the request log.                           *)
(***************************************************************************)
Done == pc = "done"
Bearer(t) == <<"Bearer", t>>
BearerTokens == {Bearer(t) : t \in Tokens}
IsLoginReq(r) == r.ep = "login"
IsEndpointReq(r) == r.ep # "login"
LoginReqs == SelectSeq(reqs, IsLoginReq)
EndpointReqs == SelectSeq(reqs, IsEndpointReq)
SingleCall == op \in {"import", "add"}
LoginFailures ==
    {"BackendAuthenticationError", "HTTPError", "JSONDecodeError", "RequestException"}

\* The call was made while a token was held and passed its argument check.
HeldTokenCall == Done /\ SingleCall /\ tokenAtCall # None /\ exc # "ValueError"

\* The last endpoint response was acted upon as the call's final response
\* (it was not a first-attempt 401 whose re-login failed).
HasFinalResponse ==
    /\ Done
    /\ EndpointReqs # << >>
    /\ lastResp # NoResponse
    /\ ~(Len(EndpointReqs) = 1 /\ lastResp.status = 401)

(***************************************************************************)
(* C1 as stated: on a call made while a token is held, a first response of *)
(* 401 is always followed by exactly one login request and exactly one     *)
(* more request to the same endpoint with the same payload and the new     *)
(* token; any other first response by nothing.                             *)
(***************************************************************************)
C1_AsStated ==
    HeldTokenCall =>
        /\ reqs # << >>
        /\ IF reqs[1].status = 401
           THEN /\ Len(reqs) = 3
                /\ reqs[2].ep = "login"
                /\ reqs[3].ep = reqs[1].ep
                /\ reqs[3].json = reqs[1].json
                /\ reqs[3].auth = Bearer(lastLogin)
           ELSE Len(reqs) = 1

(***************************************************************************)
(* C1 amended: on a call made while a token is held, a first response of   *)
(* 401 clears the token and starts exactly one login; when that login      *)
(* succeeds exactly one more request goes to the same endpoint with the    *)
(* same payload and the new token; when it fails the call raises the       *)
(* login's failure, no second endpoint request is sent and the token stays *)
(* cleared.  A first response other than 401 is followed by no login and   *)
(* no second request.  No call sends more than two endpoint requests.      *)
(***************************************************************************)
C1_RetryOnce ==
    HeldTokenCall =>
        /\ reqs # << >>
        /\ reqs[1].ep = Endpoint
        /\ reqs[1].auth = Bearer(tokenAtCall)
        /\ Len(EndpointReqs) <= 2
        /\ IF reqs[1].status = 401
           THEN /\ Len(LoginReqs) <= 1
                /\ \/ /\ Len(reqs) = 3
                      /\ reqs[2].ep = "login"
                      /\ reqs[3].ep = reqs[1].ep
                      /\ reqs[3].json = reqs[1].json
                      /\ reqs[3].auth = Bearer(lastLogin)
                      /\ reqs[3].auth \in BearerTokens
                      /\ token = lastLogin
                   \/ /\ Len(reqs) <= 2
                      /\ Len(EndpointReqs) = 1
                      /\ outcome = "raised"
                      /\ exc \in LoginFailures
                      /\ token = None
           ELSE Len(reqs) = 1 /\ token = tokenAtCall

\* A held-token call whose first response was 401 and whose re-login succeeded
\* with a token other than the expired one.
C1_Witness ==
    /\ HeldTokenCall
    /\ Len(reqs) = 3
    /\ reqs[1].status = 401
    /\ reqs[3].auth # reqs[1].auth

(***************************************************************************)
(* C2 as stated: when the retried request also returns 401, both           *)
(* import_carousel_urls and add_party_url raise.                           *)
(***************************************************************************)
SecondUnauthorized ==
    /\ Done
    /\ SingleCall
    /\ Len(EndpointReqs) = 2
    /\ EndpointReqs[2].status = 401

C2_AsStated == SecondUnauthorized => outcome = "raised"

(***************************************************************************)
(* C2 amended: when the retried request also returns 401 there is no       *)
(* further login and no third request; import_carousel_urls raises the     *)
(* HTTP failure, while add_party_url does not raise: it returns the        *)
(* mapping {detail, status_code: 401} like for any other error status.     *)
(***************************************************************************)
C2_SecondUnauthorized ==
    SecondUnauthorized =>
        /\ EndpointReqs[1].status = 401
        /\ reqs[Len(reqs)].ep # "login"
        /\ reqs[Len(reqs) - 1].ep = "login"
        /\ token = lastLogin
        /\ IF op = "import"
           THEN outcome = "raised" /\ exc = "HTTPError"
           ELSE /\ outcome = "returned"
                /\ Len(results) = 1
                /\ results[1].status_code = 401

C2_Witness == SecondUnauthorized /\ op = "add" /\ outcome = "returned"

(***************************************************************************)
(* C3 as stated: whenever the final response of add_party_url is 409 the   *)
(* call returns a mapping whose status_code is 409 and whose detail is the *)
(* body's own detail when it supplies one, "Party already added" otherwise.*)
(***************************************************************************)
C3_AsStated ==
    (HasFinalResponse /\ op = "add" /\ lastResp.status = 409) =>
        /\ outcome = "returned"
        /\ Len(results) = 1
        /\ results[1].status_code = 409
        /\ results[1].detail =
              IF lastResp.body.kind = "obj" /\ lastResp.body.detail # Absent
              THEN lastResp.body.detail[1]
              ELSE "Party already added"

(***************************************************************************)
(* add_party_urls on a client without a token, over non-empty URLs, with a *)
(* backend that answers no request with 401.                               *)
(***************************************************************************)
NoUnauthorized == \A i \in 1..Len(reqs) : reqs[i].status # 401
NonEmptyUrls == \A i \in 1..Len(args.urls) : args.urls[i] # ""
FreshBatch ==
    Done /\ op = "batch" /\ tokenAtCall = None /\ NonEmptyUrls /\ NoUnauthorized

(***************************************************************************)
(* C4 as stated: such a call over n URLs sends exactly one login request   *)
(* first, then exactly one add-party POST per URL in input order, and      *)
(* returns n results, the i-th belonging to the i-th URL.                  *)
(***************************************************************************)
C4_AsStated ==
    FreshBatch =>
        /\ Len(reqs) = Len(args.urls) + 1
        /\ reqs[1].ep = "login"
        /\ \A i \in 1..Len(args.urls) :
              reqs[i + 1].ep = "add" /\ reqs[i + 1].json.url = args.urls[i]
        /\ outcome = "returned"
        /\ Len(results) = Len(args.urls)

(***************************************************************************)
(* C4 amended: such a call over n >= 1 URLs logs in before anything else   *)
(* and at most once; if the login fails the call raises and no POST is     *)
(* sent; otherwise the POSTs follow the login one per URL in input order   *)
(* (the i-th POST carrying the i-th URL under the login's token) until a   *)
(* 2xx response whose body is not valid JSON makes the call raise          *)
(* BackendError or a POST fails in transport; whenever the call returns,   *)
(* it has sent exactly n POSTs and returns n results, the i-th built from  *)
(* the response to the i-th URL.  Over an empty list it sends nothing and  *)
(* returns an empty list.                                                  *)
(***************************************************************************)
C4_BatchInOrder ==
    FreshBatch =>
        /\ Len(LoginReqs) <= 1
        /\ Len(reqs) <= Len(args.urls) + 1
        /\ (args.urls = << >>) => (reqs = << >> /\ outcome = "returned" /\ results = << >>)
        /\ (reqs # << >>) => reqs[1].ep = "login"
        /\ \A i \in 2..Len(reqs) :
              /\ reqs[i].ep = "add"
              /\ reqs[i].json.url = args.urls[i - 1]
              /\ reqs[i].auth = Bearer(lastLogin)
              /\ reqs[i].auth \in BearerTokens
        /\ (outcome = "returned") =>
              /\ Len(reqs) = (IF args.urls = << >> THEN 0 ELSE Len(args.urls) + 1)
              /\ Len(results) = Len(args.urls)
              /\ \A i \in 1..Len(results) : results[i].status_code = reqs[i + 1].status
        /\ (outcome = "raised") =>
              \/ exc \in LoginFailures /\ Len(reqs) <= 1
              \/ /\ exc = "BackendError"
                 /\ Len(reqs) >= 2
                 /\ ~raise_for_status(lastResp.status)
                 /\ lastResp.body.kind = "invalid"
              \/ /\ exc = "RequestException"
                 /\ Len(reqs) >= 2
                 /\ lastResp = NoResponse

\* A fresh batch over two different URLs that returned, with differing statuses.
C4_Witness ==
    /\ FreshBatch
    /\ outcome = "returned"
    /\ Len(args.urls) = 2
    /\ args.urls[1] # args.urls[2]
    /\ results[1].status_code # results[2].status_code

(***************************************************************************)
(* C5: every request to the carousel-import or add-party endpoint carries  *)
(* the non-empty token returned by the client's most recent successful     *)
(* login, which is the token the client holds; no such request is sent     *)
(* while the token is absent; and inside an endpoint call a login is sent  *)
(* only while no token is held: at the start of a call that found none, or *)
(* right after a 401 from the endpoint.                                    *)
(***************************************************************************)
SendsRequest == Len(reqs') = Len(reqs) + 1 /\ op' # "none"
Sent == reqs'[Len(reqs')]

C5_BearerToken ==
    [][/\ (token # None) => (token = lastLogin /\ token \in Tokens)
       /\ (SendsRequest /\ Sent.ep # "login") =>
              /\ token # None
              /\ Sent.auth = Bearer(token)
              /\ Sent.auth = Bearer(lastLogin)
              /\ Sent.auth \in BearerTokens
       /\ (SendsRequest /\ Sent.ep = "login" /\ op' # "login") =>
              /\ token = None
              /\ \/ reqs = << >> /\ tokenAtCall = None
                 \/ reqs # << >> /\ reqs[Len(reqs)].ep # "login"
                                 /\ reqs[Len(reqs)].status = 401]_vars

\* A batch whose second URL was retried under a token other than the first's.
C5_Witness ==
    /\ op = "batch"
    /\ Len(reqs) >= 4
    /\ reqs[Len(reqs)].ep = "add"
    /\ reqs[Len(reqs)].auth # reqs[1].auth
    /\ reqs[1].ep = "add"

(***************************************************************************)
(* C6: for a final response whose status is not 2xx and not 409,           *)
(* add_party_url does not raise and returns {detail, status_code} with the *)
(* response's status and the body's detail (the HTTP error text when the   *)
(* body offers none), whereas import_carousel_urls raises for every final  *)
(* status that is not 2xx.                                                 *)
(***************************************************************************)
C6_ErrorStatus ==
    (HasFinalResponse /\ SingleCall /\ raise_for_status(lastResp.status)) =>
        IF op = "import"
        THEN outcome = "raised" /\ exc = "HTTPError"
        ELSE (lastResp.status # 409) =>
                /\ outcome = "returned"
                /\ Len(results) = 1
                /\ results[1].status_code = lastResp.status
                /\ results[1].detail =
                      IF lastResp.body.kind = "obj"
                         /\ lastResp.body.detail \notin {Absent, Some("")}
                      THEN lastResp.body.detail[1]
                      ELSE HTTPErrorText(lastResp.status)

\* add_party_url answered 500 with a body that carries a detail.
C6_Witness ==
    /\ HasFinalResponse
    /\ op = "add"
    /\ lastResp.status = 500
    /\ lastResp.body.kind = "obj"
    /\ lastResp.body.detail = Some("d1")

(***************************************************************************)
(* C7 as stated: login raises BackendAuthenticationError on 401, a generic *)
(* HTTP failure on any other non-2xx status, BackendAuthenticationError on *)
(* a 2xx response whose body has no non-empty token, and otherwise stores  *)
(* and returns the token; a failing login leaves the token as it was.      *)
(***************************************************************************)
LoginAnswered == Done /\ op = "login" /\ reqs # << >> /\ lastResp # NoResponse
HasToken(body) == body.kind = "obj" /\ body.token \notin {Absent, Some("")}

EmptyArgument ==
    \/ op = "import" /\ args.carouselName = ""
    \/ op = "add" /\ args.url = ""

C22_ValidationFirst ==
    /\ (Done /\ EmptyArgument) =>
        /\ outcome = "raised"
        /\ exc = "ValueError"
        /\ reqs = << >>
        /\ token = tokenAtCall
    /\ \A i \in 1..Len(reqs) :
        /\ reqs[i].ep = "import" => reqs[i].json.carouselName # ""
        /\ reqs[i].ep = "add" => reqs[i].json.url # ""

\* add_party_url was called with an empty URL on a client that holds a token.
C22_Witness ==
    /\ Done
    /\ op = "add"
    /\ args.url = ""
    /\ tokenAtCall \in Tokens
    /\ exc = "ValueError"

(***************************************************************************)
(* C25: add_party_urls works through its URLs one after another under the  *)
(* client's one token.  Every POST carries the URL the loop stands at and  *)
(* the token the client holds, and is sent when exactly the results of the *)
(* URLs before it are recorded; the loop moves on by one URL at a time and *)
(* only with that URL's result appended.  A login is sent only by a call   *)
(* that found no token, before its first POST, or right after a 401 on the *)
(* first POST of a URL, and is followed by the POST of that same URL; two  *)
(* POSTs in a row carry the same token.  A call that returns has one       *)
(* result per URL, the i-th from the final response to the i-th URL,       *)
(* whatever the statuses were.  When a URL makes the call raise (it is     *)
(* empty, the re-login failed, a 2xx body is not JSON, the POST failed in  *)
(* transport) the call raises, returns nothing and sends nothing more.     *)
(***************************************************************************)
InBatch == op = "batch" /\ op' = "batch"
BatchFailures == LoginFailures \cup {"ValueError", "BackendError"}

C25_Sequential ==
    [][/\ (InBatch /\ SendsRequest /\ Sent.ep = "add") =>
              /\ idx \in 1..Len(args.urls)
              /\ Sent.json.url = args.urls[idx]
              /\ Len(results) = idx - 1
              /\ token \in Tokens
              /\ Sent.auth = Bearer(token)
       /\ (InBatch /\ SendsRequest /\ Sent.ep = "login") =>
              /\ token = None
              /\ \/ reqs = << >> /\ tokenAtCall = None /\ idx = 1
                 \/ /\ reqs # << >>
                    /\ reqs[Len(reqs)].ep = "add"
                    /\ reqs[Len(reqs)].status = 401
                    /\ reqs[Len(reqs)].json.url = args.urls[idx]
                    /\ Len(results) = idx - 1
       /\ InBatch =>
              /\ idx' \in {idx, idx + 1}
              /\ (idx' = idx) => (results' = results \/ outcome' = "raised")
              /\ (idx' = idx + 1) =>
                    /\ Len(results') = idx
                    /\ SubSeq(results', 1, Len(results)) = results
                    /\ results'[idx].status_code = lastResp'.status
                    /\ reqs'[Len(reqs')].json.url = args.urls[idx]
              /\ \A i \in 1..(Len(reqs') - 1) :
                    /\ (reqs'[i].ep = "add" /\ reqs'[i + 1].ep = "add") =>
                          reqs'[i + 1].auth = reqs'[i].auth
                    /\ (reqs'[i].ep = "login") =>
                          /\ reqs'[i + 1].ep = "add"
                          /\ (i > 1) => reqs'[i + 1].json = reqs'[i - 1].json
              /\ (pc' = "done" /\ outcome' = "returned") =>
                    /\ Len(results') = Len(args.urls)
                    /\ idx' = Len(args.urls) + 1
              /\ (pc' = "done" /\ outcome' = "raised") =>
                    /\ exc' \in BatchFailures
                    /\ idx' \in 1..Len(args.urls)
                    /\ (exc' = "ValueError") <=> (args.urls[idx'] = "")
                    /\ \A i \in 1..Len(reqs') : reqs'[i].ep = "add" =>
                          \E k \in 1..idx' : reqs'[i].json.url = args.urls[k]
       /\ (Done /\ op = "batch") => (reqs' = << >> /\ pc' = "idle")]_vars

\* The first URL met a 401, the re-login gave another token, and both the
\* retry and the second URL went out under the new token.
C25_Witness ==
    /\ Done
    /\ op = "batch"
    /\ outcome = "returned"
    /\ Len(args.urls) = 2
    /\ Len(reqs) = 4
    /\ reqs[1].status = 401
    /\ reqs[2].ep = "login"
    /\ reqs[3].auth # reqs[1].auth
    /\ reqs[4].auth = reqs[3].auth
    /\ reqs[4].json.url = args.urls[2]
    /\ reqs[4].status = 409
    /\ Len(results) = 2

(***************************************************************************)
(* Slug extraction (jobs/go_out.py).                                       *)
(*                                                                         *)
(* A string is a sequence of tokens, each token one character or a run of  *)
(* letters: "/" the path separator, " " a space, "?" the query mark, ":"   *)
(* the colon, "event" the five letters of that word, every other token a   *)
(* letter or a digit.  A number is given in tenths (127 is 12.7).          *)
(***************************************************************************)
\* A variant of the key tuple with the lower-case keys first.
KeyOrderLowerFirst == <<"url", "Url", "slug", "Slug", "id", "_id">>
KeyOrder == <<"Url", "url", "slug", "Slug", "_id", "id">>
Keys == {KeyOrder[i] : i \in 1..Len(KeyOrder)}

AbsentKey == [t |-> "absent", n |-> 0, s |-> << >>]     \* key not in item
NoneValue == [t |-> "none", n |-> 0, s |-> << >>]       \* key holds None
Num(tenths) == [t |-> "num", n |-> tenths, s |-> << >>]
Str(s) == [t |-> "str", n |-> 0, s |-> s]

\* str.strip(): surrounding whitespace removed.
RECURSIVE lstrip(_, _)
lstrip(s, c) == IF s # << >> /\ Head(s) = c THEN lstrip(Tail(s), c) ELSE s
RECURSIVE rstrip(_, _)
rstrip(s, c) ==
    IF s # << >> /\ s[Len(s)] = c THEN rstrip(SubSeq(s, 1, Len(s) - 1), c) ELSE s
strip(s) == rstrip(lstrip(s, " "), " ")

Contains(s, c) == \E i \in 1..Len(s) : s[i] = c
\* s.find(c) + 1, and Len(s) + 1 when c is not in s.
RECURSIVE Find(_, _, _)
Find(s, c, i) == IF i > Len(s) \/ s[i] = c THEN i ELSE Find(s, c, i + 1)
\* s.rsplit("/", 1)[-1]: what follows the last "/" (all of s without one).
RECURSIVE rsplit_last(_)
rsplit_last(s) ==
    IF ~Contains(s, "/") THEN s ELSE rsplit_last(SubSeq(s, Find(s, "/", 1) + 1, Len(s)))

\* str(int(value)) of a number: truncated toward zero, in decimal.
RECURSIVE Digits(_)
Digits(n) == IF n < 10 THEN <<ToString(n)>> ELSE Digits(n \div 10) \o <<ToString(n % 10)>>
int(tenths) == IF tenths >= 0 THEN tenths \div 10 ELSE -((-tenths) \div 10)
str_int(n) == IF n < 0 THEN <<"-">> \o Digits(-n) ELSE Digits(n)

(***************************************************************************)
(* urlparse(text).path for a text without leading whitespace: the scheme   *)
(* (letters up to the first ":") and the network location (after a leading *)
(* "//", up to the next "/" or "?") are split off in front, the query      *)
(* (from the first "?") behind.                                            *)
(***************************************************************************)
SchemeChars == {"event", "a", "b", "h", "x"} \cup {ToString(d) : d \in 0..9} \cup {"-"}
Letters == {"event", "a", "b", "h", "x"}

AfterScheme(url) ==
    LET i == Find(url, ":", 1) IN
    IF i > 1 /\ i <= Len(url) /\ url[1] \in Letters
       /\ \A k \in 1..(i - 1) : url[k] \in SchemeChars
    THEN SubSeq(url, i + 1, Len(url))
    ELSE url

AfterNetloc(url) ==
    IF Len(url) >= 2 /\ url[1] = "/" /\ url[2] = "/"
    THEN LET rest == SubSeq(url, 3, Len(url))
             d == IF Find(rest, "/", 1) < Find(rest, "?", 1)
                  THEN Find(rest, "/", 1) ELSE Find(rest, "?", 1)
         IN SubSeq(rest, d, Len(rest))
    ELSE url

BeforeQuery(url) == SubSeq(url, 1, Find(url, "?", 1) - 1)

UrlPath(text) == BeforeQuery(AfterNetloc(AfterScheme(text)))

\* "/event/" in path
HasEventSegment(path) ==
    \E i \in 1..(Len(path) - 2) :
        path[i] = "/" /\ path[i + 1] = "event" /\ path[i + 2] = "/"

\* A variant of _clean_slug that keeps the whole text.
clean_slug_whole(s) ==
    LET t == lstrip(strip(s), "/") IN
    IF t = << >> THEN Absent ELSE Some(t)

(***************************************************************************)
(* _clean_slug: the slug or nothing.                                       *)
(***************************************************************************)
clean_slug(s) ==
    LET t == lstrip(strip(s), "/") IN
    IF t = << >> THEN Absent
    ELSE LET u == IF Contains(t, "/") THEN rsplit_last(t) ELSE t IN
         IF u = << >> THEN Absent ELSE Some(u)

\* str(value).strip() of a value that is present and not None.
value_text(v) == strip(IF v.t = "num" THEN str_int(int(v.n)) ELSE v.s)

\* Lines 63-68: the slug of the text of the key that decides.
slug_of_text(text) ==
    IF Contains(text, "/") /\ UrlPath(text) # << >> /\ HasEventSegment(UrlPath(text))
    THEN clean_slug(rsplit_last(UrlPath(text)))
    ELSE clean_slug(text)

\* The loop over the keys, from the i-th key on.
RECURSIVE probe_keys(_, _)
probe_keys(fields, i) ==
    IF i > Len(KeyOrder) THEN Absent
    ELSE LET v == fields[KeyOrder[i]] IN
         IF v.t = "absent" THEN probe_keys(fields, i + 1)
         ELSE IF v.t = "none" THEN probe_keys(fields, i + 1)
         ELSE IF value_text(v) = << >> THEN probe_keys(fields, i + 1)
         ELSE slug_of_text(value_text(v))

extract_event_slug_from_ticket_item(it) ==
    IF ~it.mapping THEN Absent ELSE probe_keys(it.fields, 1)

(***************************************************************************)
(* The raw events the extractor is tried on: every event with one key      *)
(* holding a string of up to MaxTextLen tokens, bare or behind a scheme    *)
(* and host; every event with up to MaxKeys keys holding values of the     *)
(* kinds the code tells apart; an event that is no mapping.                *)
(***************************************************************************)
TextTokens == {"/", "event", "a", " ", "?"}
Texts == UNION {[1..n -> TextTokens] : n \in 0..MaxTextLen}
UrlPrefix == <<"h", ":", "/", "/", "x">>
LongTexts == Texts \cup {UrlPrefix \o t : t \in Texts}

KindValues ==
    {NoneValue, Num(0), Num(127), Num(-15), Str(<< >>), Str(<<" ">>), Str(<<"/">>),
     Str(<<"a">>), Str(<<"b">>), Str(<<"/", "event", "/">>), Str(<<"x", "/", "a">>)}

NoFields == [k \in Keys |-> AbsentKey]
Mapping(fields) == [mapping |-> TRUE, fields |-> fields]
NonMapping == [mapping |-> FALSE, fields |-> NoFields]

KeySets == {K \in SUBSET Keys : Cardinality(K) <= MaxKeys}

InitSlug ==
    /\ InitBackend
    /\ InitMainIdle
    /\ InitEventsIdle
    /\ InitAuthIdle
    /\ InitJobIdle
    /\ InitAffIdle
    /\ InitFetchIdle
    /\ \/ item = NonMapping
       \/ \E k \in Keys, t \in LongTexts :
             item = Mapping([NoFields EXCEPT ![k] = Str(t)])
       \/ \E K \in KeySets : \E f \in [K -> KindValues] :
             item = Mapping([k \in Keys |-> IF k \in K THEN f[k] ELSE AbsentKey])
    /\ slug = Absent
    /\ spc = "input"

\* _extract_event_slug_from_ticket_item(item) is called.
Extract ==
    /\ spc = "input"
    /\ slug' = extract_event_slug_from_ticket_item(item)
    /\ spc' = "done"
    /\ UNCHANGED item
    /\ UNCHANGED backendVars
    /\ UNCHANGED affVars
    /\ UNCHANGED fetchVars
    /\ UNCHANGED jobVars
    /\ UNCHANGED authVars
    /\ UNCHANGED mainVars
    /\ UNCHANGED eventsVars

NextSlug == Extract

SpecSlug == InitSlug /\ [][NextSlug]_vars

(***************************************************************************)
(* The claims about slug extraction speak of the key that decides: the     *)
(* first key, in the documented order, that is present with a value that   *)
(* is not None and not blank after trimming.                               *)
(***************************************************************************)
DocumentedOrder == <<"Url", "url", "slug", "Slug", "_id", "id">>
Extracted == spc = "done"
Usable(v) == v.t \notin {"absent", "none"} /\ value_text(v) # << >>
UsableAt(i) == item.mapping /\ Usable(item.fields[DocumentedOrder[i]])
HasUsableKey == \E i \in 1..Len(DocumentedOrder) : UsableAt(i)
FirstUsable ==
    CHOOSE i \in 1..Len(DocumentedOrder) :
        UsableAt(i) /\ \A j \in 1..(i - 1) : ~UsableAt(j)
WinningValue == item.fields[DocumentedOrder[FirstUsable]]
WinningText == value_text(WinningValue)

(***************************************************************************)
(* C8: the keys are probed in the order Url, url, slug, Slug, _id, id and  *)
(* the result is the slug of the first key present with a non-empty value  *)
(* (absent, None and blank values are skipped); a number is taken in its   *)
(* integer-string form (12.7 gives "12"); an event exposing none of the    *)
(* keys, or one that is no mapping, yields nothing.                        *)
(***************************************************************************)
C8_FirstKeyWins ==
    Extracted =>
        IF ~HasUsableKey THEN slug = Absent
        ELSE /\ slug = slug_of_text(WinningText)
             /\ (WinningValue.t = "num") => slug = Some(str_int(int(WinningValue.n)))
             /\ (WinningValue = Num(127)) => slug = Some(<<"1", "2">>)
             /\ (WinningValue = Num(-15)) => slug = Some(<<"-", "1">>)

\* Two keys hold usable values with different slugs; the earlier key's is returned.
C8_Witness ==
    /\ Extracted
    /\ HasUsableKey
    /\ slug # Absent
    /\ \E j \in (FirstUsable + 1)..Len(DocumentedOrder) :
          /\ UsableAt(j)
          /\ item.fields[DocumentedOrder[j]].t = "num"
          /\ slug_of_text(value_text(item.fields[DocumentedOrder[j]])) # slug

(***************************************************************************)
(* C9 as stated: when the deciding value contains "/" and its URL path     *)
(* contains "/event/", the slug is the last path segment; in every other   *)
(* case the slug is the whole value with only its leading slashes removed. *)
(***************************************************************************)
OrNothing(s) == IF s = << >> THEN Absent ELSE Some(s)
LastSlash(s) == CHOOSE i \in 0..Len(s) :
                    /\ (i > 0 => s[i] = "/")
                    /\ \A j \in (i + 1)..Len(s) : s[j] # "/"
AfterLastSlash(s) == SubSeq(s, LastSlash(s) + 1, Len(s))
IsEventUrl(v) == Contains(v, "/") /\ HasEventSegment(UrlPath(v))

C9_AsStated ==
    (Extracted /\ HasUsableKey) =>
        slug = IF IsEventUrl(WinningText)
               THEN OrNothing(strip(AfterLastSlash(UrlPath(WinningText))))
               ELSE OrNothing(lstrip(WinningText, "/"))

(***************************************************************************)
(* C9 amended: when the deciding value contains "/" and its URL path       *)
(* contains "/event/", the slug is the last segment of that path, trimmed; *)
(* in every other case the slug is the value with its leading slashes      *)
(* removed and, when a "/" remains, cut down to what follows its last "/". *)
(* An empty slug is nothing.                                               *)
(***************************************************************************)
C9_LastSegment ==
    (Extracted /\ HasUsableKey) =>
        slug = IF IsEventUrl(WinningText)
               THEN OrNothing(strip(AfterLastSlash(UrlPath(WinningText))))
               ELSE OrNothing(AfterLastSlash(lstrip(WinningText, "/")))

\* A deciding value with an inner "/" and no /event/ segment, cut to its tail.
C9_Witness ==
    /\ Extracted
    /\ HasUsableKey
    /\ ~IsEventUrl(WinningText)
    /\ Contains(lstrip(WinningText, "/"), "/")
    /\ slug # Absent
    /\ slug # Some(lstrip(WinningText, "/"))

(***************************************************************************)
(* C10 as stated: extraction returns nothing exactly when no key of the    *)
(* event yields a non-empty slug after cleaning; whenever some key holds a *)
(* value that cleans to a non-empty slug, a non-empty slug is returned,    *)
(* also when an earlier key holds a non-empty value that cleans to empty.  *)
(***************************************************************************)
YieldsSlug(i) ==
    UsableAt(i) /\ slug_of_text(value_text(item.fields[DocumentedOrder[i]])) # Absent

C10_AsStated ==
    Extracted =>
        ((slug = Absent) <=> ~(\E i \in 1..Len(DocumentedOrder) : YieldsSlug(i)))

(***************************************************************************)
(* Affiliate tagging (jobs/go_out.py, append_affiliate_param).             *)
(*                                                                         *)
(* In a URL the tokens "?", "#", "&" and "=" are the delimiters of the     *)
(* query, the fragment, the parameters and the values; "+" and the tokens  *)
(* beginning with "%" are escapes.  The URLs of the model have a scheme    *)
(* and a host, as every URL the program tags has.                          *)
(***************************************************************************)
\* s.split(sep, 1): what precedes and what follows the first sep.
BeforeFirst(s, sep) == SubSeq(s, 1, Find(s, sep, 1) - 1)
AfterFirst(s, sep) == SubSeq(s, Find(s, sep, 1) + 1, Len(s))

\* s.split(sep)
RECURSIVE split(_, _)
split(s, sep) ==
    IF ~Contains(s, sep) THEN <<s>>
    ELSE <<BeforeFirst(s, sep)>> \o split(AfterFirst(s, sep), sep)

(***************************************************************************)
(* urlparse(url): the fragment is cut at the first "#", then the query at  *)
(* the first "?" of what precedes it; base is the scheme, the host and the *)
(* path together.                                                          *)
(***************************************************************************)
urlparse(url) ==
    LET front == BeforeFirst(url, "#") IN
    [base |-> BeforeFirst(front, "?"),
     query |-> AfterFirst(front, "?"),
     fragment |-> AfterFirst(url, "#")]

\* urlunparse: an empty query or fragment is left out with its delimiter.
urlunparse(p) ==
    p.base \o (IF p.query = << >> THEN << >> ELSE <<"?">> \o p.query)
           \o (IF p.fragment = << >> THEN << >> ELSE <<"#">> \o p.fragment)

\* What unquote makes of one token: "+" and the %-escapes are decoded.
unquote_char(c) ==
    CASE c = "+" -> " "
      [] c = "%2B" -> "+"
      [] c = "%26" -> "&"
      [] c = "%3D" -> "="
      [] c = "%23" -> "#"
      [] c = "%3F" -> "?"
      [] c = "%2F" -> "/"
      [] OTHER -> c

\* What quote_plus makes of one character: letters and digits are kept.
quote_char(c) ==
    CASE c = " " -> "+"
      [] c = "+" -> "%2B"
      [] c = "&" -> "%26"
      [] c = "=" -> "%3D"
      [] c = "#" -> "%23"
      [] c = "?" -> "%3F"
      [] c = "/" -> "%2F"
      [] OTHER -> c

unquote_plus(s) == [i \in 1..Len(s) |-> unquote_char(s[i])]
\* A variant of quote_plus that escapes nothing.
quote_plus_nothing(s) == s
quote_plus(s) == [i \in 1..Len(s) |-> quote_char(s[i])]

Param(k, v) == [k |-> k, v |-> v]

\* One piece of a query: name and value are split at the first "=".
parse_piece(piece) ==
    Param(unquote_plus(BeforeFirst(piece, "=")), unquote_plus(AfterFirst(piece, "=")))

\* parse_qsl(query, keep_blank_values=True): empty pieces are skipped.
RECURSIVE parse_pieces(_)
parse_pieces(pieces) ==
    IF pieces = << >> THEN << >>
    ELSE (IF Head(pieces) = << >> THEN << >> ELSE <<parse_piece(Head(pieces))>>)
         \o parse_pieces(Tail(pieces))
parse_qsl(query) == parse_pieces(split(query, "&"))

\* urlencode(pairs)
RECURSIVE urlencode(_)
urlencode(pairs) ==
    IF pairs = << >> THEN << >>
    ELSE quote_plus(Head(pairs).k) \o <<"=">> \o quote_plus(Head(pairs).v)
         \o (IF Len(pairs) = 1 THEN << >> ELSE <<"&">> \o urlencode(Tail(pairs)))

AffKey == <<"aff">>
NotAff(p) == p.k # AffKey
IsAff(p) == p.k = AffKey

\* "not referral": None and the empty string.
NoReferral(referral) == referral = Absent \/ referral[1] = << >>

\* A variant that keeps the aff parameters the URL already has.
append_affiliate_param_keeping(url, referral) ==
    IF NoReferral(referral) THEN url
    ELSE LET parsed == urlparse(url)
             query == Append(parse_qsl(parsed.query), Param(AffKey, referral[1]))
         IN urlunparse([parsed EXCEPT !.query = urlencode(query)])

append_affiliate_param(url, referral) ==
    IF NoReferral(referral) THEN url
    ELSE LET parsed == urlparse(url)
             query == Append(SelectSeq(parse_qsl(parsed.query), NotAff),
                             Param(AffKey, referral[1]))
         IN urlunparse([parsed EXCEPT !.query = urlencode(query)])

(***************************************************************************)
(* The URLs tagged: the event prefix and a slug, then no query or a query  *)
(* of up to MaxParams pieces, then no fragment or a fragment.  The         *)
(* referrals: None, the empty string and two non-empty ones, one of which  *)
(* holds a character that must be escaped.                                 *)
(***************************************************************************)
GO_OUT_EVENT_BASE_URL == <<"h", ":", "/", "/", "x", "/", "event", "/">>

RawParams ==
    {<< >>, <<"a">>, <<"aff">>, <<"aff", "=", "b">>, <<"b", "=", "+">>,
     <<"a", "=", "%26", "=">>}

RECURSIVE join(_, _)
join(pieces, sep) ==
    IF pieces = << >> THEN << >>
    ELSE Head(pieces) \o (IF Len(pieces) = 1 THEN << >>
                          ELSE <<sep>> \o join(Tail(pieces), sep))

RawQueries ==
    {<< >>} \cup {<<"?">> \o join(ps, "&") :
                     ps \in UNION {[1..n -> RawParams] : n \in 0..MaxParams}}
RawFragments == {<< >>, <<"#">>, <<"#", "a", "?", "aff", "=", "b">>}
AffUrls == {GO_OUT_EVENT_BASE_URL \o <<"a">> \o q \o f : q \in RawQueries, f \in RawFragments}
AffReferrals == {Absent, Some(<< >>), Some(<<"r">>), Some(<<"b", "&", " ">>)}

InitAff ==
    /\ InitBackend
    /\ InitMainIdle
    /\ InitEventsIdle
    /\ InitAuthIdle
    /\ InitJobIdle
    /\ InitSlugIdle
    /\ InitFetchIdle
    /\ affUrl \in AffUrls
    /\ affTags = << >>
    /\ affOut = affUrl

\* affOut = append_affiliate_param(affOut, referral)
Tag ==
    /\ Len(affTags) < MaxTags
    /\ \E referral \in AffReferrals :
        /\ affOut' = append_affiliate_param(affOut, referral)
        /\ affTags' = Append(affTags, referral)
    /\ UNCHANGED affUrl
    /\ UNCHANGED backendVars
    /\ UNCHANGED slugVars
    /\ UNCHANGED fetchVars
    /\ UNCHANGED jobVars
    /\ UNCHANGED authVars
    /\ UNCHANGED mainVars
    /\ UNCHANGED eventsVars

NextAff == Tag

SpecAff == InitAff /\ [][NextAff]_vars

(***************************************************************************)
(* What the claims about tagging observe of a URL: its parts and the       *)
(* parameters of its query.                                                *)
(***************************************************************************)
Params(url) == parse_qsl(urlparse(url).query)
AffParams(url) == SelectSeq(Params(url), IsAff)
OtherParams(url) == SelectSeq(Params(url), NotAff)
LastTag == affTags[Len(affTags)]
Tagged == affTags # << >>

(***************************************************************************)
(* C11: with an absent or empty referral the URL comes back unchanged;     *)
(* otherwise the result has the same scheme, host and path and the same    *)
(* fragment, its query holds every non-aff parameter of the input in the   *)
(* original order and exactly one aff parameter, which equals the referral *)
(* and is the last parameter.                                              *)
(***************************************************************************)
C11_TaggedOnce ==
    (Len(affTags) = 1) =>
        IF NoReferral(LastTag) THEN affOut = affUrl
        ELSE /\ urlparse(affOut).base = urlparse(affUrl).base
             /\ urlparse(affOut).fragment = urlparse(affUrl).fragment
             /\ OtherParams(affOut) = OtherParams(affUrl)
             /\ Len(AffParams(affOut)) = 1
             /\ Params(affOut)[Len(Params(affOut))] = Param(AffKey, LastTag[1])

\* A URL with two aff parameters around other parameters and a fragment, tagged.
C11_Witness ==
    /\ Len(affTags) = 1
    /\ ~NoReferral(LastTag)
    /\ Len(AffParams(affUrl)) = 2
    /\ Len(OtherParams(affUrl)) >= 1
    /\ Params(affUrl)[1].k = AffKey
    /\ urlparse(affUrl).fragment # << >>
    /\ LastTag[1] # quote_plus(LastTag[1])

(***************************************************************************)
(* C12: tagging a tagged URL replaces the aff parameter: after any number  *)
(* of taggings the last of which has a non-empty referral r, the URL is    *)
(* the one a single tagging of the original URL with r gives (so tagging   *)
(* with r1 then r2 equals tagging with r2, and tagging twice with r equals *)
(* tagging once); once a non-empty referral was applied the URL never      *)
(* carries more than one aff parameter.                                    *)
(***************************************************************************)
C12_Retag ==
    /\ (Tagged /\ ~NoReferral(LastTag)) =>
           affOut = append_affiliate_param(affUrl, LastTag)
    /\ (\E i \in 1..Len(affTags) : ~NoReferral(affTags[i])) =>
           Len(AffParams(affOut)) <= 1

\* Two taggings with different non-empty referrals, the first one escaped.
C12_Witness ==
    /\ Len(affTags) = 2
    /\ ~NoReferral(affTags[1])
    /\ ~NoReferral(affTags[2])
    /\ affTags[1] # affTags[2]
    /\ affTags[1][1] # quote_plus(affTags[1][1])
    /\ Len(OtherParams(affUrl)) >= 1

(***************************************************************************)
(* Collecting event URLs (jobs/go_out.py, _collect_go_out_event_urls) and  *)
(* scraping them from the HTML page (_extract_slugs_from_html).            *)
(***************************************************************************)
InSeq(x, seq) == \E i \in 1..Len(seq) : seq[i] = x

\* f"{GO_OUT_EVENT_BASE_URL}{slug}", tagged.
event_url(slugText, referral) ==
    append_affiliate_param(GO_OUT_EVENT_BASE_URL \o slugText, referral)

\* A variant of the loop of the collector that never skips a URL it has seen.
RECURSIVE collect_all(_, _, _)
collect_all(events, referral, urls) ==
    IF events = << >> THEN urls
    ELSE LET s == extract_event_slug_from_ticket_item(Head(events)) IN
         IF s = Absent THEN collect_all(Tail(events), referral, urls)
         ELSE collect_all(Tail(events), referral, Append(urls, event_url(s[1], referral)))

\* The loop of the collector; the set seen holds the elements of urls.
RECURSIVE collect(_, _, _)
collect(events, referral, urls) ==
    IF events = << >> THEN urls
    ELSE LET s == extract_event_slug_from_ticket_item(Head(events)) IN
         IF s = Absent THEN collect(Tail(events), referral, urls)
         ELSE IF InSeq(event_url(s[1], referral), urls)
         THEN collect(Tail(events), referral, urls)
         ELSE collect(Tail(events), referral, Append(urls, event_url(s[1], referral)))

collect_go_out_event_urls(events, referral) == collect(events, referral, << >>)

\* [a-zA-Z0-9-]
SlugChars == {"event", "a", "b", "h", "x", "r", "aff", "-"} \cup {ToString(d) : d \in 0..9}

\* The end of the longest run of slug characters that starts at i.
RECURSIVE run_end(_, _)
run_end(html, i) ==
    IF i < Len(html) /\ html[i + 1] \in SlugChars THEN run_end(html, i + 1) ELSE i

\* Whether /event/([a-zA-Z0-9-]+) matches at position i.
MatchesAt(html, i) ==
    /\ i + 3 <= Len(html)
    /\ html[i] = "/" /\ html[i + 1] = "event" /\ html[i + 2] = "/"
    /\ html[i + 3] \in SlugChars

\* A variant of the scan that keeps a slug every time it is matched.
RECURSIVE find_slugs_all(_, _, _)
find_slugs_all(html, i, slugs) ==
    IF i > Len(html) THEN slugs
    ELSE IF MatchesAt(html, i)
    THEN find_slugs_all(html, run_end(html, i + 3) + 1,
                        Append(slugs, SubSeq(html, i + 3, run_end(html, i + 3))))
    ELSE find_slugs_all(html, i + 1, slugs)

\* pattern.finditer(html): the matches from left to right, none overlapping.
RECURSIVE find_slugs(_, _, _)
find_slugs(html, i, slugs) ==
    IF i > Len(html) THEN slugs
    ELSE IF MatchesAt(html, i)
    THEN LET e == run_end(html, i + 3)
             s == SubSeq(html, i + 3, e)
         IN find_slugs(html, e + 1, IF InSeq(s, slugs) THEN slugs ELSE Append(slugs, s))
    ELSE find_slugs(html, i + 1, slugs)

extract_slugs_from_html(html) == find_slugs(html, 1, << >>)

\* Line 181: the URL of every scraped slug, tagged.
scrape_urls(html, referral) ==
    LET slugs == extract_slugs_from_html(html) IN
    [i \in 1..Len(slugs) |-> event_url(slugs[i], referral)]

(***************************************************************************)
(* GoOutFetcher (jobs/go_out.py).  A fetch is one call of                  *)
(* fetch_nightlife_events or fetch_weekend_events on a fetcher; it has     *)
(* one step per HTTP exchange, the way the exchange ends being an input of *)
(* the step:                                                               *)
(*   "unreachable"  urlopen raised URLError, which the session turns into  *)
(*                  RequestException;                                      *)
(*   "timeout"      urlopen raised another error (a timeout while waiting  *)
(*                  for the response, a dropped connection, a truncated    *)
(*                  body), which the session lets through as it is;        *)
(*   "response"     a response with a status, and for the API a body that  *)
(*                  is no JSON, a JSON value that is no object, or an      *)
(*                  object; for the HTML page a text.                      *)
(* The "events" entry of an object is absent, null, a list of raw events,  *)
(* a number, or ("text") a non-empty string or object, whose elements are  *)
(* no mappings.                                                            *)
(***************************************************************************)
NoEventsValue == EventsValue("absent", << >>)
EmptyList == EventsValue("list", << >>)

EventPool ==
    {Mapping([NoFields EXCEPT !["Url"] = Str(<<"a">>)]),
     Mapping([NoFields EXCEPT !["url"] = Str(GO_OUT_EVENT_BASE_URL \o <<"a">>)]),
     Mapping([NoFields EXCEPT !["slug"] = Str(<<"b">>)]),
     Mapping([NoFields EXCEPT !["Url"] = Str(<<"a", "?", "aff", "=", "b">>)]),
     Mapping([NoFields EXCEPT !["Url"] = Str(<<"/">>)]),
     Mapping([NoFields EXCEPT !["id"] = Num(127)]),
     Mapping(NoFields),
     NonMapping}

EventLists == UNION {[1..n -> EventPool] : n \in 0..MaxEvents}

EventsValues ==
    {NoEventsValue, EventsValue("null", << >>), EventsValue("num", << >>),
     EventsValue("text", <<NonMapping>>)}
    \cup {EventsValue("list", l) : l \in EventLists}

PrimaryOutcomes ==
    {Exchange("unreachable", 0, "none", NoEventsValue, << >>),
     Exchange("timeout", 0, "none", NoEventsValue, << >>),
     Exchange("response", 500, "invalid", NoEventsValue, << >>),
     Exchange("response", 200, "invalid", NoEventsValue, << >>),
     Exchange("response", 200, "nonobj", NoEventsValue, << >>)}
    \cup {Exchange("response", 200, "obj", e, << >>) : e \in EventsValues}

HtmlChunks ==
    {<<"<">>, <<"a">>, <<"/", "event", "/">>, <<"/", "event", "/", "a">>,
     <<"/", "event", "/", "b", "-", "a", "?">>, <<"/", "event", "/", "event">>}
Htmls == {join(c, "<") : c \in UNION {[1..n -> HtmlChunks] : n \in 0..MaxLinks}}
RECURSIVE concat(_)
concat(pieces) == IF pieces = << >> THEN << >> ELSE Head(pieces) \o concat(Tail(pieces))
PlainHtmls == {concat(c) : c \in UNION {[1..n -> HtmlChunks] : n \in 0..MaxLinks}}

FallbackOutcomes ==
    {Exchange("unreachable", 0, "none", NoEventsValue, << >>),
     Exchange("timeout", 0, "none", NoEventsValue, << >>),
     Exchange("response", 500, "none", NoEventsValue, << >>)}
    \cup {Exchange("response", 200, "none", NoEventsValue, h) : h \in Htmls \cup PlainHtmls}

FetchReferrals == {Absent, Some(<<"r">>)}

FetchRequest(method, url) == [method |-> method, url |-> url]
PrimaryRequest(m) ==
    IF m = "fetch_nightlife_events"
    THEN FetchRequest("POST", "/endOne/getEventsByTypeNew")
    ELSE FetchRequest("GET", "/endOne/getWeekendEvents")
FallbackRequest(m) ==
    IF m = "fetch_nightlife_events"
    THEN FetchRequest("GET", "/tickets/nightlife")
    ELSE FetchRequest("GET", "/weekend")

\* What a step of the fetch leads to.
FetchFallsBack == [next |-> "fallback", urls |-> << >>, exc |-> "none"]
FetchReturns(urls) == [next |-> "done", urls |-> urls, exc |-> "none"]
FetchRaises(e) == [next |-> "done", urls |-> << >>, exc |-> e]

\* "not events"
NoEvents(e) == e.t \in {"absent", "null"} \/ (e.t \in {"list", "text"} /\ e.items = << >>)

(***************************************************************************)
(* _fetch_events from the primary request on: RequestException (also the   *)
(* HTTPError of raise_for_status) and the ValueError of response.json()    *)
(* lead to the HTML page, as does a body without events; any other         *)
(* exception leaves the fetch.                                             *)
(***************************************************************************)
fetch_events(o, referral) ==
    IF o.kind = "timeout" THEN FetchRaises("TimeoutError")
    ELSE IF o.kind = "unreachable" \/ raise_for_status(o.status) \/ o.json = "invalid"
    THEN FetchFallsBack
    ELSE LET events == IF o.json = "obj" THEN o.events ELSE EmptyList IN
         IF NoEvents(events) THEN FetchFallsBack
         ELSE IF events.t = "num" THEN FetchRaises("TypeError")
         ELSE FetchReturns(collect_go_out_event_urls(events.items, referral))

\* _scrape_events_from_html from the GET on.
scrape_events_from_html(o, referral) ==
    IF o.kind = "timeout" THEN FetchRaises("TimeoutError")
    ELSE IF o.kind = "unreachable" \/ raise_for_status(o.status)
    THEN FetchReturns(<< >>)
    ELSE FetchReturns(scrape_urls(o.text, referral))

InitFetch ==
    /\ InitBackend
    /\ InitMainIdle
    /\ InitEventsIdle
    /\ InitAuthIdle
    /\ InitJobIdle
    /\ InitSlugIdle
    /\ InitAffIdle
    /\ fReferral \in FetchReferrals
    /\ fMethod = "none"
    /\ fpc = "idle"
    /\ fReqs = << >>
    /\ fPrimary = NoExchange
    /\ fFallback = NoExchange
    /\ fUrls = << >>
    /\ fExc = "none"

FetchFrame ==
    /\ UNCHANGED backendVars
    /\ UNCHANGED slugVars
    /\ UNCHANGED affVars
    /\ UNCHANGED jobVars
    /\ UNCHANGED authVars
    /\ UNCHANGED mainVars
    /\ UNCHANGED eventsVars

\* fetch_nightlife_events() is called: the payload and the endpoint are set up.
FetchNightlife ==
    /\ fpc = "idle"
    /\ fMethod' = "fetch_nightlife_events"
    /\ fpc' = "primary"
    /\ UNCHANGED <<fReferral, fReqs, fPrimary, fFallback, fUrls, fExc>>
    /\ FetchFrame

\* fetch_weekend_events() is called: the parameters and the endpoint are set up.
FetchWeekend ==
    /\ fpc = "idle"
    /\ fMethod' = "fetch_weekend_events"
    /\ fpc' = "primary"
    /\ UNCHANGED <<fReferral, fReqs, fPrimary, fFallback, fUrls, fExc>>
    /\ FetchFrame

\* _fetch_events: the primary request and what follows it up to the next request.
PrimaryStep ==
    /\ fpc = "primary"
    /\ \E o \in PrimaryOutcomes :
        LET r == fetch_events(o, fReferral) IN
        /\ fReqs' = Append(fReqs, PrimaryRequest(fMethod))
        /\ fPrimary' = o
        /\ fpc' = r.next
        /\ fUrls' = r.urls
        /\ fExc' = r.exc
    /\ UNCHANGED <<fReferral, fMethod, fFallback>>
    /\ FetchFrame

\* _scrape_events_from_html: the GET of the page and what follows it.
FallbackStep ==
    /\ fpc = "fallback"
    /\ \E o \in FallbackOutcomes :
        LET r == scrape_events_from_html(o, fReferral) IN
        /\ fReqs' = Append(fReqs, FallbackRequest(fMethod))
        /\ fFallback' = o
        /\ fpc' = r.next
        /\ fUrls' = r.urls
        /\ fExc' = r.exc
    /\ UNCHANGED <<fReferral, fMethod, fPrimary>>
    /\ FetchFrame

NextFetch ==
    \/ FetchNightlife
    \/ FetchWeekend
    \/ PrimaryStep
    \/ FallbackStep

SpecFetch == InitFetch /\ [][NextFetch]_vars

(***************************************************************************)
(* What a finished fetch shows: the requests it sent, and where the        *)
(* returned list came from.                                                *)
(***************************************************************************)
FetchDone == fpc = "done"
FetchReturned == FetchDone /\ fExc = "none"
FallbackSent == fFallback # NoExchange
PrimaryCount == Cardinality({i \in 1..Len(fReqs) : fReqs[i] = PrimaryRequest(fMethod)})
FallbackCount == Cardinality({i \in 1..Len(fReqs) : fReqs[i] = FallbackRequest(fMethod)})
\* The list came from the API: the events handed to the collector.
FromApi == FetchReturned /\ ~FallbackSent
ApiEvents == fPrimary.events.items
\* The list came from the HTML page, which was received.
FromHtml == FetchReturned /\ FallbackSent /\ fFallback.kind = "response"
                          /\ ~raise_for_status(fFallback.status)

NoRepeat(seq) == \A i, j \in 1..Len(seq) : i # j => seq[i] # seq[j]
Elements(seq) == {seq[i] : i \in 1..Len(seq)}

YieldsAt(k) == extract_event_slug_from_ticket_item(ApiEvents[k]) # Absent
\* Prefix + slug, then tagged, of the k-th event.
TaggedUrlAt(k) ==
    append_affiliate_param(
        GO_OUT_EVENT_BASE_URL \o extract_event_slug_from_ticket_item(ApiEvents[k])[1],
        fReferral)
FirstOccurrence(u) ==
    CHOOSE k \in 1..Len(ApiEvents) :
        /\ YieldsAt(k) /\ TaggedUrlAt(k) = u
        /\ \A m \in 1..(k - 1) : ~(YieldsAt(m) /\ TaggedUrlAt(m) = u)

(***************************************************************************)
(* C13: the collector returns a list without a repeated URL, holding       *)
(* exactly the tagged URLs (event prefix + slug, then affiliate tagged) of *)
(* the events that yield a slug, in the order of each URL's first          *)
(* occurrence in the input; events yielding no slug contribute nothing.    *)
(***************************************************************************)
C13_UniqueInOrder ==
    FromApi =>
        /\ NoRepeat(fUrls)
        /\ Elements(fUrls) = {TaggedUrlAt(k) : k \in {n \in 1..Len(ApiEvents) : YieldsAt(n)}}
        /\ \A i, j \in 1..Len(fUrls) :
              i < j => FirstOccurrence(fUrls[i]) < FirstOccurrence(fUrls[j])

\* Two events with different slugs and the same tagged URL, and one without a slug.
C13_Witness ==
    /\ FromApi
    /\ Len(ApiEvents) = 3
    /\ Len(fUrls) = 1
    /\ ~YieldsAt(2)
    /\ YieldsAt(1) /\ YieldsAt(3)
    /\ extract_event_slug_from_ticket_item(ApiEvents[1])
          # extract_event_slug_from_ticket_item(ApiEvents[3])

(***************************************************************************)
(* C14 as stated: a fetch sends exactly one primary request; the GET of    *)
(* the HTML page is sent if and only if that request ended in a transport  *)
(* failure, a status outside 2xx, a body that is no valid JSON, or a JSON   *)
(* body with no events; a JSON body with a non-empty events list is        *)
(* followed by no GET and the list is built from its events.               *)
(***************************************************************************)
TransportFailure(o) == o.kind \in {"unreachable", "timeout"}
PrimaryGaveNothing ==
    \/ TransportFailure(fPrimary)
    \/ raise_for_status(fPrimary.status)
    \/ fPrimary.json \in {"invalid", "nonobj"}
    \/ NoEvents(fPrimary.events)
HasEventsList ==
    /\ fPrimary.kind = "response" /\ ~raise_for_status(fPrimary.status)
    /\ fPrimary.json = "obj"
    /\ fPrimary.events.t = "list" /\ fPrimary.events.items # << >>

C14_AsStated ==
    FetchDone =>
        /\ PrimaryCount = 1
        /\ FallbackSent <=> PrimaryGaveNothing
        /\ HasEventsList =>
              /\ FallbackCount = 0
              /\ fExc = "none"
              /\ fUrls = collect_go_out_event_urls(ApiEvents, fReferral)

(***************************************************************************)
(* C15 as stated: a returned list comes entirely from the API or entirely  *)
(* from the HTML page, and a fetch never returns an empty list produced by *)
(* the primary path without having attempted the HTML fallback.            *)
(***************************************************************************)
C15_AsStated ==
    FetchReturned =>
        /\ \/ FromApi /\ fUrls = collect_go_out_event_urls(ApiEvents, fReferral)
           \/ FallbackSent /\ fUrls = scrape_events_from_html(fFallback, fReferral).urls
        /\ (fUrls = << >>) => FallbackSent

(***************************************************************************)
(* C16: the slugs of the HTML page are the matches of                      *)
(* /event/<letters, digits, hyphens> from left to right, each kept once at *)
(* its first occurrence, and the list the fallback returns is the list the *)
(* collector returns for the events {"Url": s}, s ranging over these slugs *)
(* in order, with the fetcher's referral; it has no repeated URL.          *)
(***************************************************************************)
PageSlugs == extract_slugs_from_html(fFallback.text)
SlugEvents(slugs) ==
    [i \in 1..Len(slugs) |-> Mapping([NoFields EXCEPT !["Url"] = Str(slugs[i])])]
\* The slug matched at position p of the page.
SlugAt(p) == SubSeq(fFallback.text, p + 3, run_end(fFallback.text, p + 3))
\* The position where the slug is seen first.
FirstSeen(s) ==
    CHOOSE p \in 1..Len(fFallback.text) :
        /\ MatchesAt(fFallback.text, p) /\ SlugAt(p) = s
        /\ \A q \in 1..(p - 1) : ~(MatchesAt(fFallback.text, q) /\ SlugAt(q) = s)

C16_SameShape ==
    FromHtml =>
        /\ NoRepeat(PageSlugs)
        /\ \A i \in 1..Len(PageSlugs) :
              \E p \in 1..Len(fFallback.text) :
                  MatchesAt(fFallback.text, p) /\ SlugAt(p) = PageSlugs[i]
        /\ \A i, j \in 1..Len(PageSlugs) :
              i < j => FirstSeen(PageSlugs[i]) < FirstSeen(PageSlugs[j])
        /\ fUrls = collect_go_out_event_urls(SlugEvents(PageSlugs), fReferral)
        /\ Len(fUrls) = Len(PageSlugs)
        /\ NoRepeat(fUrls)

\* A page that links one event twice and another one once, scraped with a referral.
C16_Witness ==
    /\ FromHtml
    /\ fReferral # Absent
    /\ Len(PageSlugs) = 2
    /\ Cardinality({p \in 1..Len(fFallback.text) : MatchesAt(fFallback.text, p)}) = 3

(***************************************************************************)
(* C23 as stated: a fetch sends at most two requests, one primary and at   *)
(* most one GET of the HTML page after it; when that GET ends in a         *)
(* transport failure or a status outside 2xx the fetch returns an empty    *)
(* list and does not raise.                                                *)
(***************************************************************************)
FallbackFailed ==
    FallbackSent /\ (TransportFailure(fFallback) \/ raise_for_status(fFallback.status))

C23_AsStated ==
    /\ Len(fReqs) <= 2
    /\ PrimaryCount <= 1
    /\ FallbackCount <= 1
    /\ (Len(fReqs) = 2) => (fReqs[1] = PrimaryRequest(fMethod)
                            /\ fReqs[2] = FallbackRequest(fMethod))
    /\ FallbackSent => FetchDone
    /\ (FetchDone /\ FallbackFailed) => (fExc = "none" /\ fUrls = << >>)

(***************************************************************************)
(* The jobs (jobs/nightlife.py, jobs/weekend.py, jobs/my_events.py).       *)
(*                                                                         *)
(* A run is one call of a job's run_job with keyword arguments.  Python    *)
(* binds the arguments before the body runs: a keyword the signature does  *)
(* not have raises TypeError and nothing of the body is executed.  What    *)
(* the job's data source and the admin client answer are inputs of the     *)
(* steps.                                                                  *)
(***************************************************************************)
\* The keyword parameters of each run_job.
Signature(job) ==
    CASE job = "nightlife" -> {}
      [] job = "weekend" -> {"referral", "output_file"}
      [] job = "my_events" -> {"admin_client", "session"}

\* Whether the call binds to the signature.
Binds(job, kwargs) == kwargs \subseteq Signature(job)

\* The keyword arguments callers pass.
CallShapes(job) ==
    IF job = "my_events" THEN {{}, {"admin_client"}, {"admin_client", "session"}}
    ELSE {{}, {"referral"}, {"referral", "admin_client"}}

Record(title, url) == [title |-> title, url |-> url]
build_event_records(title, urls) == [i \in 1..Len(urls) |-> Record(title, urls[i])]
\* A variant of build_event_records that lists the URLs backwards.
record_urls_reversed(records) ==
    [i \in 1..Len(records) |-> records[Len(records) + 1 - i].url]
\* [record["url"] for record in records]
record_urls(records) == [i \in 1..Len(records) |-> records[i].url]

ClientCall(method, carousel, referral, urls) ==
    [method |-> method, carouselName |-> carousel, referral |-> referral, urls |-> urls]

\* my_events._extract_event_records: the events are taken from a dict
\* whose "events" entry is a list, and collected without a referral.
extract_event_records(data) ==
    LET events == IF data.json = "obj" /\ data.events.t = "list"
                  THEN data.events.items ELSE << >>
    IN build_event_records("my_events", collect_go_out_event_urls(events, Absent))

\* What my_events.fetch_events returns: any JSON value.
MyEventsData == {o \in PrimaryOutcomes : o.kind = "response" /\ o.status = 200
                                         /\ o.json \in {"nonobj", "obj"}}
\* The exceptions fetch_events lets through.
FetchEventsFailures == {"AuthenticationError", "HTTPError", "RequestException"}
\* The exceptions add_party_urls lets through.
UploadFailures == {"BackendAuthenticationError", "BackendError", "RequestException"}
\* What fetch_weekend_events returns for the job's referral.
FetchedLists(referral) ==
    {collect_go_out_event_urls(l, referral) : l \in {e \in EventLists : Len(e) <= 2}}
\* The exceptions fetch_weekend_events lets through.
FetchFailures == {"TimeoutError", "TypeError"}
\* How the POST of nightlife.run_job can end.
NightlifeOutcomes ==
    {o \in PrimaryOutcomes :
        o.json = "obj" => /\ o.events.t \in {"absent", "list"}
                          /\ \A i \in 1..Len(o.events.items) : o.events.items[i].mapping}

InitJobs ==
    /\ InitBackend
    /\ InitMainIdle
    /\ InitEventsIdle
    /\ InitAuthIdle
    /\ InitSlugIdle
    /\ InitAffIdle
    /\ InitFetchIdle
    /\ jJob = "none"
    /\ jKwargs = {}
    /\ jReferral = Absent
    /\ jpc = "idle"
    /\ jFetcher = Absent
    /\ jFetches = 0
    /\ jData = NoExchange
    /\ jCalls = << >>
    /\ jFiles = {}
    /\ jResult = "none"
    /\ jRecords = << >>
    /\ jExc = "none"

JobFrame ==
    /\ UNCHANGED backendVars
    /\ UNCHANGED slugVars
    /\ UNCHANGED affVars
    /\ UNCHANGED fetchVars
    /\ UNCHANGED authVars
    /\ UNCHANGED mainVars
    /\ UNCHANGED eventsVars

JobRaises(e) == jResult' = "raised" /\ jExc' = e /\ jpc' = "done"
JobReturns(kind) == jResult' = kind /\ jExc' = "none" /\ jpc' = "done"

\* The arguments of run_job(**kwargs) are bound to the job's signature.
BindCall(job, next) ==
    \E kwargs \in CallShapes(job), r \in FetchReferrals :
        /\ jJob' = job
        /\ jKwargs' = kwargs
        /\ jReferral' = IF "referral" \in kwargs THEN r ELSE Absent
        /\ IF Binds(job, kwargs)
           THEN jpc' = next /\ jResult' = "none" /\ jExc' = "none"
           ELSE JobRaises("TypeError")

\* nightlife.run_job(**kwargs) is called.
RunNightlife ==
    /\ jpc = "idle"
    /\ BindCall("nightlife", "post")
    /\ UNCHANGED <<jFetcher, jFetches, jData, jCalls, jFiles, jRecords>>
    /\ JobFrame

\* weekend.run_job(**kwargs) is called.
RunWeekend ==
    /\ jpc = "idle"
    /\ BindCall("weekend", "fetch")
    /\ UNCHANGED <<jFetcher, jFetches, jData, jCalls, jFiles, jRecords>>
    /\ JobFrame

\* my_events.run_job(**kwargs) is called.
RunMyEvents ==
    /\ jpc = "idle"
    /\ BindCall("my_events", "fetch")
    /\ UNCHANGED <<jFetcher, jFetches, jData, jCalls, jFiles, jRecords>>
    /\ JobFrame

\* nightlife.run_job: the POST, the placeholder carousel handler, the file.
NightlifePost ==
    /\ jJob = "nightlife" /\ jpc = "post"
    /\ jFetches' = jFetches + 1
    /\ \E o \in NightlifeOutcomes :
        IF o.kind = "unreachable"
        THEN JobRaises("RequestException") /\ UNCHANGED jFiles
        ELSE IF o.kind = "timeout"
        THEN JobRaises("TimeoutError") /\ UNCHANGED jFiles
        ELSE IF raise_for_status(o.status)
        THEN JobRaises("HTTPError") /\ UNCHANGED jFiles
        ELSE IF o.json = "invalid"
        THEN JobRaises("JSONDecodeError") /\ UNCHANGED jFiles
        ELSE IF o.json = "nonobj"
        THEN JobRaises("AttributeError") /\ UNCHANGED jFiles
        ELSE JobReturns("data") /\ jFiles' = jFiles \cup {"events_nightlife.json"}
    /\ UNCHANGED <<jJob, jKwargs, jReferral, jFetcher, jData, jCalls, jRecords>>
    /\ JobFrame

\* weekend.run_job: the fetcher, the fetch, the records, the file.
WeekendFetch ==
    /\ jJob = "weekend" /\ jpc = "fetch"
    /\ jFetcher' = Some(jReferral)
    /\ jFetches' = jFetches + 1
    /\ \/ \E e \in FetchFailures :
            JobRaises(e) /\ UNCHANGED <<jRecords, jFiles>>
       \/ \E urls \in FetchedLists(jReferral) :
            /\ jRecords' = build_event_records("weekend", urls)
            /\ jFiles' = jFiles \cup {"events_weekend.json"}
            /\ JobReturns("records")
    /\ UNCHANGED <<jJob, jKwargs, jReferral, jData, jCalls>>
    /\ JobFrame

\* my_events.run_job up to the backend call: fetch_events and the records.
MyEventsFetch ==
    /\ jJob = "my_events" /\ jpc = "fetch"
    /\ jFetches' = jFetches + 1
    /\ \/ \E e \in FetchEventsFailures :
            JobRaises(e) /\ UNCHANGED <<jRecords, jData>>
       \/ \E data \in MyEventsData :
            /\ jData' = data
            /\ jRecords' = extract_event_records(data)
            /\ jpc' = "upload" /\ jResult' = "none" /\ jExc' = "none"
    /\ UNCHANGED <<jJob, jKwargs, jReferral, jFetcher, jCalls, jFiles>>
    /\ JobFrame

\* my_events.run_job from the backend call on.
MyEventsUpload ==
    /\ jJob = "my_events" /\ jpc = "upload"
    /\ jCalls' = Append(jCalls, ClientCall("add_party_urls", "", Absent,
                                           record_urls(jRecords)))
    /\ \/ \E e \in UploadFailures : JobRaises(e)
       \/ JobReturns("records")
    /\ UNCHANGED <<jJob, jKwargs, jReferral, jFetcher, jFetches, jData, jFiles, jRecords>>
    /\ JobFrame

NextJobs ==
    \/ RunNightlife
    \/ RunWeekend
    \/ RunMyEvents
    \/ NightlifePost
    \/ WeekendFetch
    \/ MyEventsFetch
    \/ MyEventsUpload

SpecJobs == InitJobs /\ [][NextJobs]_vars

(***************************************************************************)
(* What a finished run shows.                                              *)
(***************************************************************************)
JobDone == jpc = "done"
CallsOf(method) ==
    Cardinality({i \in 1..Len(jCalls) : jCalls[i].method = method})
TitledAll(title) == \A i \in 1..Len(jRecords) : jRecords[i].title = title

(***************************************************************************)
(* C17 as stated: the nightlife and the weekend job, called as             *)
(* run_job(referral=r, admin_client=c), construct a fetcher with referral  *)
(* r, build one record per fetched URL titled with the job's carousel      *)
(* name, make exactly one import_carousel_urls call on c with that name,   *)
(* r and the URL list, make no add_party_urls call, and return the         *)
(* records.                                                                *)
(***************************************************************************)
C17_AsStated ==
    (JobDone /\ jJob \in {"nightlife", "weekend"}
             /\ jKwargs = {"referral", "admin_client"}) =>
        /\ jFetcher = Some(jReferral)
        /\ jResult = "records"
        /\ TitledAll(jJob)
        /\ jCalls = <<ClientCall("import_carousel_urls", jJob, jReferral,
                                 record_urls(jRecords))>>
        /\ CallsOf("add_party_urls") = 0

(***************************************************************************)
(* C18: my_events.run_job fetches the events payload once, builds one      *)
(* record titled "my_events" per event URL (the untagged prefix + slug of  *)
(* every event that yields a slug, each URL once, at its first             *)
(* occurrence), calls add_party_urls on the admin client exactly once with *)
(* the record URLs in record order, makes no import_carousel_urls call and *)
(* returns the records; a failure of the fetch (before any backend call)   *)
(* or of the backend call leaves run_job as it is, without a retry.        *)
(***************************************************************************)
\* Prefix + slug of the events that yield a slug, in order.
RECURSIVE UntaggedUrls(_)
UntaggedUrls(events) ==
    IF events = << >> THEN << >>
    ELSE LET s == extract_event_slug_from_ticket_item(Head(events)) IN
         (IF s = Absent THEN << >> ELSE <<GO_OUT_EVENT_BASE_URL \o s[1]>>)
         \o UntaggedUrls(Tail(events))
\* The elements of a sequence, each at its first occurrence only.
RECURSIVE FirstOccurrences(_)
FirstOccurrences(seq) ==
    IF seq = << >> THEN << >>
    ELSE LET front == FirstOccurrences(SubSeq(seq, 1, Len(seq) - 1))
             last == seq[Len(seq)]
         IN IF InSeq(last, front) THEN front ELSE Append(front, last)
PayloadEvents ==
    IF jData.json = "obj" /\ jData.events.t = "list" THEN jData.events.items ELSE << >>

C18_MyEvents ==
    (JobDone /\ jJob = "my_events") =>
        /\ jFetches = 1
        /\ CallsOf("import_carousel_urls") = 0
        /\ Len(jCalls) <= 1
        /\ TitledAll("my_events")
        /\ IF jData = NoExchange
           THEN /\ jResult = "raised" /\ jExc \in FetchEventsFailures
                /\ jCalls = << >>
           ELSE /\ record_urls(jRecords) = FirstOccurrences(UntaggedUrls(PayloadEvents))
                /\ jCalls = <<ClientCall("add_party_urls", "", Absent,
                                         FirstOccurrences(UntaggedUrls(PayloadEvents)))>>
                /\ \/ jResult = "records"
                   \/ jResult = "raised" /\ jExc \in UploadFailures

\* Three events, one of them a repetition, give two records that were sent and returned.
C18_Witness ==
    /\ JobDone /\ jJob = "my_events"
    /\ jResult = "records"
    /\ Len(PayloadEvents) = 3
    /\ Len(jRecords) = 2
    /\ jRecords[1].url # jRecords[2].url
    /\ Len(jCalls) = 1

\* ---------------------------------------------------------------------------
\* The authentication payload of my_events: the directory auth_payload with
\* token.txt and cookies.json, bootstrapped from GOOUT_TOKEN and a browser.
\* ---------------------------------------------------------------------------

HOME_URL == "https://www.go-out.co/"
LOCAL_STORAGE_TOKEN_KEY == "authToken"

\* A value of a cookie entry: a string, an integer (s is how str() renders it) or
\* None; a missing key reads as None through entry.get.
CookieStr(x) == [t |-> "str", s |-> x]
CookieInt(x) == [t |-> "int", s |-> x]
CookieNone == [t |-> "none", s |-> ""]

\* Python's truth of a value: None and the empty string are false.
truthy(v) == v.t # "none" /\ v.s # ""
\* str(v)
str(v) == IF v.t = "none" THEN "None" ELSE v.s

\* One element of the list get_cookies() returns: a mapping with the values
\* of "name" and "value", or something that is not a mapping.
Entry(name, value) == [mapping |-> TRUE, name |-> name, value |-> value]
NotAMapping == [mapping |-> FALSE, name |-> CookieNone, value |-> CookieNone]

\* dict assignment d[k] = v: a new key is appended, an existing key keeps
\* its place and gets the new value.
dict_set(d, k, v) ==
    IF \E i \in 1..Len(d) : d[i].name = k
        THEN [i \in 1..Len(d) |-> IF d[i].name = k THEN [name |-> k, value |-> v]
                                                   ELSE d[i]]
        ELSE Append(d, [name |-> k, value |-> v])

\* The loop body's two guards of _fetch_cookies_via_selenium.
keeps_entry(e) == e.mapping /\ truthy(e.name) /\ e.value.t # "none"

RECURSIVE cookies_from(_, _)
cookies_from(raw, d) ==
    IF raw = << >> THEN d
    ELSE cookies_from(Tail(raw),
                      IF keeps_entry(Head(raw))
                          THEN dict_set(d, str(Head(raw).name), str(Head(raw).value))
                          ELSE d)

\* What get_cookies() returns: None, or a list.
NoneReturn == [none |-> TRUE, list |-> << >>]
ListReturn(l) == [none |-> FALSE, list |-> l]
\* raw_cookies = driver.get_cookies() or []
or_empty(r) == IF r.none \/ r.list = << >> THEN << >> ELSE r.list

CookieEntries ==
    { Entry(CookieStr("sid"), CookieStr("a")),
      Entry(CookieStr("sid"), CookieStr("")),
      Entry(CookieStr("tok"), CookieInt("7")),
      Entry(CookieStr(""), CookieStr("a")),
      Entry(CookieNone, CookieStr("a")),
      Entry(CookieStr("tok"), CookieNone),
      NotAMapping }

CookieLists ==
    UNION { [1..n -> CookieEntries] : n \in 0..MaxCookies }

CookieReturns == {NoneReturn} \cup { ListReturn(l) : l \in CookieLists }

EnvTokens == {Absent, Some(""), Some("t1"), Some("t2")}

\* The payloads a call can find: the files live inside the directory.
StoredCookies == <<[name |-> "sid", value |-> "old"]>>
Payloads ==
    {Payload3(FALSE, Absent, Absent)}
    \cup { Payload3(TRUE, t, c) : t \in {Absent, Some("t0")},
                                   c \in {Absent, Some(StoredCookies)} }

\* _get_env_token: an unset or empty variable raises.
get_env_token(env) ==
    IF env = Absent \/ env = Some("")
        THEN [exc |-> "AuthenticationError", token |-> ""]
        ELSE [exc |-> "none", token |-> env[1]]

\* Broken variant: the directory alone counts as an initialized payload.
payload_initialized_dir_only(p) == p.dir

\* The first line of _ensure_auth_payload_initialized.
payload_initialized(p) == p.dir /\ p.token # Absent /\ p.cookies # Absent

\* Broken variant: driver.refresh() is called outside a try block.
Guarded_without_refresh(call) == call \in {"add_cookie", "execute_script", "quit"}

\* The driver calls whose exception is caught and logged.
Guarded(call) == call \in {"add_cookie", "execute_script", "refresh", "quit"}

\* The statement that follows a driver call inside the try block.
Following(call) ==
    CASE call = "get" -> "add_cookie"
      [] call = "add_cookie" -> "execute_script"
      [] call = "execute_script" -> "refresh"
      [] call = "refresh" -> "get_cookies"
      [] call = "get_cookies" -> "quit"

DriverCall(call, given, ok) == [call |-> call, args |-> given, ok |-> ok]

\* The token the running call read from the environment.
AuthToken == get_env_token(aEnv).token

InitAuth ==
    /\ InitBackend
    /\ InitMainIdle
    /\ InitEventsIdle
    /\ InitSlugIdle
    /\ InitAffIdle
    /\ InitFetchIdle
    /\ InitJobIdle
    /\ \E p \in Payloads :
        /\ aDir = p.dir
        /\ aTokenFile = p.token
        /\ aCookiesFile = p.cookies
    /\ aEnv \in EnvTokens
    /\ aPc = "idle"
    /\ aCalls = 0
    /\ aAtCall = Payload3(FALSE, Absent, Absent)
    /\ aEnvRead = FALSE
    /\ aFactory = 0
    /\ aDrv = << >>
    /\ aPending = "none"
    /\ aRaw = Absent
    /\ aResult = "none"
    /\ aExc = "none"
    /\ aPrev = "none"

AuthFrame ==
    /\ UNCHANGED backendVars
    /\ UNCHANGED slugVars
    /\ UNCHANGED affVars
    /\ UNCHANGED fetchVars
    /\ UNCHANGED jobVars
    /\ UNCHANGED mainVars
    /\ UNCHANGED eventsVars

\* _ensure_auth_payload_initialized up to the call of the webdriver factory.
EnsureAuth ==
    /\ aPc = "idle"
    /\ aCalls < MaxCalls
    /\ aCalls' = aCalls + 1
    /\ aAtCall' = Payload3(aDir, aTokenFile, aCookiesFile)
    /\ aFactory' = 0
    /\ aDrv' = << >>
    /\ aPending' = "none"
    /\ aRaw' = Absent
    /\ IF payload_initialized(Payload3(aDir, aTokenFile, aCookiesFile))
        THEN /\ aPc' = "done"
             /\ aResult' = "returned"
             /\ aExc' = "none"
             /\ aEnvRead' = FALSE
             /\ UNCHANGED <<aDir, aTokenFile>>
        ELSE /\ aDir' = TRUE
             /\ aEnvRead' = TRUE
             /\ IF get_env_token(aEnv).exc # "none"
                 THEN /\ aPc' = "done"
                      /\ aResult' = "raised"
                      /\ aExc' = get_env_token(aEnv).exc
                      /\ UNCHANGED aTokenFile
                 ELSE /\ aPc' = "factory"
                      /\ aResult' = "none"
                      /\ aExc' = "none"
                      /\ aTokenFile' = Some(get_env_token(aEnv).token)
    /\ UNCHANGED <<aCookiesFile, aEnv, aPrev>>
    /\ AuthFrame

\* driver = factory(): outside the try block, so its exception leaves at once.
CreateDriver ==
    /\ aPc = "factory"
    /\ aFactory' = aFactory + 1
    /\ \E ok \in BOOLEAN :
        IF ok
            THEN /\ aPc' = "get"
                 /\ UNCHANGED <<aResult, aExc>>
            ELSE /\ aPc' = "done"
                 /\ aResult' = "raised"
                 /\ aExc' = "AuthenticationError"
    /\ UNCHANGED <<aDir, aTokenFile, aCookiesFile, aEnv, aCalls, aAtCall,
                   aEnvRead, aDrv, aPending, aRaw, aPrev>>
    /\ AuthFrame

\* One call on the driver inside the try block: logged, then either the next
\* statement, or the finally clause with the exception pending.
DriverStep(call, given, ok) ==
    /\ aDrv' = Append(aDrv, DriverCall(call, given, ok))
    /\ IF ok \/ Guarded(call)
        THEN /\ aPc' = Following(call)
             /\ UNCHANGED aPending
        ELSE /\ aPc' = "quit"
             /\ aPending' = "WebDriverException"
    /\ UNCHANGED <<aDir, aTokenFile, aCookiesFile, aEnv, aCalls, aAtCall,
                   aEnvRead, aFactory, aResult, aExc, aPrev>>
    /\ AuthFrame

DriverGet ==
    /\ aPc = "get"
    /\ \E ok \in BOOLEAN : DriverStep("get", <<HOME_URL>>, ok)
    /\ UNCHANGED aRaw

DriverAddCookie ==
    /\ aPc = "add_cookie"
    /\ \E ok \in BOOLEAN : DriverStep("add_cookie", <<"token", AuthToken>>, ok)
    /\ UNCHANGED aRaw

DriverExecuteScript ==
    /\ aPc = "execute_script"
    /\ \E ok \in BOOLEAN :
        DriverStep("execute_script", <<LOCAL_STORAGE_TOKEN_KEY, AuthToken>>, ok)
    /\ UNCHANGED aRaw

DriverRefresh ==
    /\ aPc = "refresh"
    /\ \E ok \in BOOLEAN : DriverStep("refresh", << >>, ok)
    /\ UNCHANGED aRaw

DriverGetCookies ==
    /\ aPc = "get_cookies"
    /\ \/ /\ DriverStep("get_cookies", << >>, FALSE)
          /\ UNCHANGED aRaw
       \/ \E r \in CookieReturns :
            /\ DriverStep("get_cookies", << >>, TRUE)
            /\ aRaw' = Some(or_empty(r))

\* The finally clause, then the rest of both functions: the pending
\* exception leaves, or the cookies are filtered and written to cookies.json.
DriverQuit ==
    /\ aPc = "quit"
    /\ \E ok \in BOOLEAN :
        /\ aDrv' = Append(aDrv, DriverCall("quit", << >>, ok))
        /\ aPc' = "done"
        /\ IF ~ok /\ ~Guarded("quit")
            THEN /\ aResult' = "raised"
                 /\ aExc' = "WebDriverException"
                 /\ UNCHANGED aCookiesFile
            ELSE IF aPending # "none"
                THEN /\ aResult' = "raised"
                     /\ aExc' = aPending
                     /\ UNCHANGED aCookiesFile
                ELSE /\ aResult' = "returned"
                     /\ aExc' = "none"
                     /\ aCookiesFile' = Some(cookies_from(aRaw[1], << >>))
    /\ UNCHANGED <<aDir, aTokenFile, aEnv, aCalls, aAtCall, aEnvRead, aFactory,
                   aPending, aRaw, aPrev>>
    /\ AuthFrame

\* The call is over; the environment may differ when the next call starts.
ReturnAuth ==
    /\ aPc = "done"
    /\ aCalls < MaxCalls
    /\ aPc' = "idle"
    /\ aPrev' = aResult
    /\ aEnv' \in EnvTokens
    /\ UNCHANGED <<aDir, aTokenFile, aCookiesFile, aCalls, aAtCall, aEnvRead,
                   aFactory, aDrv, aPending, aRaw, aResult, aExc>>
    /\ AuthFrame

NextAuth ==
    \/ EnsureAuth
    \/ CreateDriver
    \/ DriverGet
    \/ DriverAddCookie
    \/ DriverExecuteScript
    \/ DriverRefresh
    \/ DriverGetCookies
    \/ DriverQuit
    \/ ReturnAuth

SpecAuth == InitAuth /\ [][NextAuth]_vars

AuthDone == aPc = "done"
NowPayload == Payload3(aDir, aTokenFile, aCookiesFile)
AllExisted == aAtCall.dir /\ aAtCall.token # Absent /\ aAtCall.cookies # Absent

\* The entries of the browser's list that carry a cookie: mappings with a
\* name that is neither None nor empty and a value that is not None.
Carries(e) == e.mapping /\ e.name.t = "str" /\ e.name.s # "" /\ e.value.t # "none"
\* The mapping d holds exactly the cookies of the list raw, one pair per name,
\* each with the text of the last value the list gives for that name.
HoldsCookiesOf(d, raw) ==
    /\ \A i, j \in 1..Len(d) : d[i].name = d[j].name => i = j
    /\ \A i \in 1..Len(d) : \E k \in 1..Len(raw) :
        Carries(raw[k]) /\ raw[k].name.s = d[i].name
    /\ \A k \in 1..Len(raw) : Carries(raw[k]) =>
        \E i \in 1..Len(d) :
            /\ d[i].name = raw[k].name.s
            /\ (\A m \in (k + 1)..Len(raw) :
                    ~(Carries(raw[m]) /\ raw[m].name = raw[k].name))
                => d[i].value = raw[k].value.s

CallNames == [i \in 1..Len(aDrv) |-> aDrv[i].call]
FullOrder ==
    <<"get", "add_cookie", "execute_script", "refresh", "get_cookies", "quit">>
IsPrefix(a, b) == Len(a) <= Len(b) /\ \A i \in 1..Len(a) : a[i] = b[i]
QuitCount == Cardinality({i \in 1..Len(aDrv) : aDrv[i].call = "quit"})
DriverCreated == aPc \in {"get", "add_cookie", "execute_script", "refresh",
                          "get_cookies", "quit"} \/ aDrv # << >>
Failed(call) == \E i \in 1..Len(aDrv) : aDrv[i].call = call /\ ~aDrv[i].ok
Succeeded(call) == \E i \in 1..Len(aDrv) : aDrv[i].call = call /\ aDrv[i].ok

\* C20: the driver is called in the order get(home page), add_cookie(token),
\* execute_script(localStorage key, token), refresh, get_cookies, quit; when
\* get or get_cookies raises, quit follows at once; once a driver exists the
\* finished operation has called quit exactly once; and when get and
\* get_cookies succeed the cookies are returned whatever add_cookie,
\* execute_script, refresh and quit did.
C20_OrderAndQuit ==
    /\ IF Failed("get") THEN IsPrefix(CallNames, <<"get", "quit">>)
                        ELSE IsPrefix(CallNames, FullOrder)
    /\ \A i \in 1..Len(aDrv) :
        /\ aDrv[i].call = "get" => aDrv[i].args = <<HOME_URL>>
        /\ aDrv[i].call = "add_cookie" => aDrv[i].args = <<"token", aTokenFile[1]>>
        /\ aDrv[i].call = "execute_script" =>
            aDrv[i].args = <<LOCAL_STORAGE_TOKEN_KEY, aTokenFile[1]>>
    /\ QuitCount <= 1
    /\ (AuthDone /\ DriverCreated) =>
        /\ QuitCount = 1
        /\ aDrv[Len(aDrv)].call = "quit"
        /\ (Succeeded("get") /\ Succeeded("get_cookies")) =>
            /\ CallNames = FullOrder
            /\ aResult = "returned"
        /\ (Failed("get") \/ Failed("get_cookies")) =>
            /\ aResult = "raised"
            /\ aExc = "WebDriverException"

\* add_cookie, execute_script, refresh and quit all failed, and the cookies
\* were still read and returned.
C20_Witness ==
    /\ AuthDone
    /\ Failed("add_cookie")
    /\ Failed("execute_script")
    /\ Failed("refresh")
    /\ Failed("quit")
    /\ Succeeded("get_cookies")
    /\ aResult = "returned"
    /\ aCookiesFile # Absent
    /\ aCookiesFile[1] # << >>

\* ---------------------------------------------------------------------------
\* The entry point (main.py): run(referral).
\* ---------------------------------------------------------------------------

\* merge_event_records: the collections one after another, flattened.
RECURSIVE merge_event_records(_)
merge_event_records(collections) ==
    IF collections = << >> THEN << >>
    ELSE Head(collections) \o merge_event_records(Tail(collections))

\* One run_job call of main.run: the job and the keyword arguments passed.
JobCall(job, kwargs) == [job |-> job, kwargs |-> kwargs]

\* The run_job calls the list "collections" of run() is built from, in order.
MainJobs == <<JobCall("my_events", {})>>

InitMain ==
    /\ InitBackend
    /\ InitSlugIdle
    /\ InitAffIdle
    /\ InitFetchIdle
    /\ InitJobIdle
    /\ InitAuthIdle
    /\ InitEventsIdle
    /\ mReferral \in FetchReferrals
    /\ mpc = "idle"
    /\ mRan = << >>
    /\ mCollections = << >>
    /\ mMerged = << >>
    /\ mResult = "none"
    /\ mExc = "none"

\* run(referral) is called and enters the first run_job of its list.
MainRun ==
    /\ mpc = "idle"
    /\ jpc = "idle"
    /\ mpc' = "jobs"
    /\ mRan' = <<MainJobs[1]>>
    /\ jJob' = MainJobs[1].job
    /\ jKwargs' = MainJobs[1].kwargs
    /\ jReferral' = Absent
    /\ IF Binds(MainJobs[1].job, MainJobs[1].kwargs)
       THEN jpc' = "fetch" /\ jResult' = "none" /\ jExc' = "none"
       ELSE JobRaises("TypeError")
    /\ UNCHANGED <<jFetcher, jFetches, jData, jCalls, jFiles, jRecords>>
    /\ UNCHANGED <<mReferral, mCollections, mMerged, mResult, mExc>>
    /\ UNCHANGED backendVars
    /\ UNCHANGED slugVars
    /\ UNCHANGED affVars
    /\ UNCHANGED fetchVars
    /\ UNCHANGED authVars
    /\ UNCHANGED eventsVars

\* The run_job call is over: its exception leaves run(), or its records are
\* the one collection, which merge_event_records flattens.
MainMerge ==
    /\ mpc = "jobs"
    /\ jpc = "done"
    /\ mpc' = "done"
    /\ IF jResult = "raised"
       THEN /\ mResult' = "raised"
            /\ mExc' = jExc
            /\ UNCHANGED <<mCollections, mMerged>>
       ELSE /\ mResult' = "returned"
            /\ mExc' = "none"
            /\ mCollections' = <<jRecords>>
            /\ mMerged' = merge_event_records(<<jRecords>>)
    /\ UNCHANGED <<mReferral, mRan>>
    /\ UNCHANGED jobVars
    /\ UNCHANGED backendVars
    /\ UNCHANGED slugVars
    /\ UNCHANGED affVars
    /\ UNCHANGED fetchVars
    /\ UNCHANGED authVars
    /\ UNCHANGED eventsVars

NextMain ==
    \/ MainRun
    \/ MyEventsFetch
    \/ MyEventsUpload
    \/ MainMerge

SpecMain == InitMain /\ [][NextMain]_vars

MainDone == mpc = "done"
JobsRan == {mRan[i].job : i \in 1..Len(mRan)}

(***************************************************************************)
(* C21 as stated: a run that returns has run the nightlife, the weekend    *)
(* and the my-events job, once each, has passed its referral to nightlife  *)
(* and weekend, and returns the record lists of the jobs one after the     *)
(* other in job order.                                                     *)
(***************************************************************************)
C21_AsStated ==
    (MainDone /\ mResult = "returned") =>
        /\ Len(mRan) = 3
        /\ JobsRan = {"nightlife", "weekend", "my_events"}
        /\ \A i \in 1..Len(mRan) :
              mRan[i].job \in {"nightlife", "weekend"} => "referral" \in mRan[i].kwargs
        /\ Len(mCollections) = 3
        /\ mMerged = merge_event_records(mCollections)

\* ---------------------------------------------------------------------------
\* my_events.fetch_events: the GET of the events endpoint under the stored
\* token, and the renewal of the token after a 401.
\* ---------------------------------------------------------------------------

\* The session fetch_events works with: the module's own requests.Session()
\* when the caller gives none, or an object of the caller.
Sessions == {"requests.Session", "caller"}

\* Session.get hands its keyword arguments to Session.request, whose
\* parameters are params, json, headers, timeout and proxies.
accepts_cookies(session) == session # "requests.Session"

\* token.txt as a hand-written file: the token and a line end.
PaddedToken == "t0\n"
\* TOKEN_FILE.read_text().strip() on the texts token.txt holds here.
strip_text(text) == IF text = PaddedToken THEN "t0" ELSE text

EventsPayloads ==
    Payloads \cup {Payload3(TRUE, Some(PaddedToken), Some(StoredCookies))}

\* How a GET of the events endpoint ends.
GetReply(kind, status, json) == [kind |-> kind, status |-> status, json |-> json]
GetReplies ==
    {GetReply("unreachable", 0, "none"), GetReply("timeout", 0, "none")}
    \cup {GetReply("response", st, j) : st \in {200, 401, 500}, j \in {"invalid", "obj"}}

\* How the login POST of the renewal ends.
RenewStatuses == {200, 201, 401, 500}
RenewReplies ==
    {Reply("unreachable", 0, Absent, Absent), Reply("timeout", 0, Absent, Absent)}
    \cup {Reply(k, st, Absent, Absent) : k \in {"invalid", "nonobj"}, st \in RenewStatuses}
    \cup {Reply("obj", st, t, a) : st \in RenewStatuses,
                                   t \in {Absent, Some(""), Some("t1")},
                                   a \in {Absent, Some("t2")}}

\* What the browser bootstrap of a missing payload gives: it raises, or
\* get_cookies() returned this.
BootstrapLists ==
    {<< >>, <<Entry(CookieStr("sid"), CookieStr("a"))>>,
     <<Entry(CookieStr("sid"), CookieStr("a")), Entry(CookieStr("tok"), CookieNone)>>}

EventsRequest(method, ep, auth, cookies, status) ==
    [method |-> method, ep |-> ep, auth |-> auth, cookies |-> cookies, status |-> status]

\* What a step of fetch_events leads to.
EventsRaises(e) == ePc' = "done" /\ eResult' = "raised" /\ eExc' = e
EventsReturns == ePc' = "done" /\ eResult' = "returned" /\ eExc' = "none"
EventsGoesOn(p) == ePc' = p /\ eResult' = "none" /\ eExc' = "none"

\* "if response.status_code == 401" follows the first GET only.
renews_after(attempt, status) == attempt = "get1" /\ status = 401

\* fetch_events from the reply to a GET on.
after_get(attempt, o) ==
    IF o.kind = "unreachable" THEN "RequestException"
    ELSE IF o.kind = "timeout" THEN "TimeoutError"
    ELSE IF renews_after(attempt, o.status) THEN "renew"
    ELSE IF raise_for_status(o.status) THEN "HTTPError"
    ELSE IF o.json = "invalid" THEN "JSONDecodeError"
    ELSE "return"

\* data.get("token") or data.get("access_token")
reply_token(r) ==
    IF r.token # Absent /\ r.token # Some("") THEN r.token
    ELSE r.access_token

\* renew_token_from_env from the reply to its POST on: the exception, or
\* the token it writes to token.txt and returns.
renew_token_from_env(r) ==
    IF r.kind = "unreachable" THEN [exc |-> "RequestException", token |-> None]
    ELSE IF r.kind = "timeout" THEN [exc |-> "TimeoutError", token |-> None]
    ELSE IF r.status # 200 THEN [exc |-> "AuthenticationError", token |-> None]
    ELSE IF r.kind = "invalid" THEN [exc |-> "JSONDecodeError", token |-> None]
    ELSE IF r.kind = "nonobj" THEN [exc |-> "AttributeError", token |-> None]
    ELSE IF reply_token(r) = Absent \/ reply_token(r) = Some("")
    THEN [exc |-> "AuthenticationError", token |-> None]
    ELSE [exc |-> "none", token |-> reply_token(r)[1]]

InitEvents ==
    /\ InitBackend
    /\ InitSlugIdle
    /\ InitAffIdle
    /\ InitFetchIdle
    /\ InitJobIdle
    /\ InitMainIdle
    /\ \E p \in EventsPayloads :
        /\ aDir = p.dir
        /\ aTokenFile = p.token
        /\ aCookiesFile = p.cookies
    /\ aEnv \in EnvTokens
    /\ aPc = "idle"
    /\ aCalls = 0
    /\ aAtCall = Payload3(FALSE, Absent, Absent)
    /\ aEnvRead = FALSE
    /\ aFactory = 0
    /\ aDrv = << >>
    /\ aPending = "none"
    /\ aRaw = Absent
    /\ aResult = "none"
    /\ aExc = "none"
    /\ aPrev = "none"
    /\ eSession \in Sessions
    /\ eCreds \in BOOLEAN
    /\ ePc = "idle"
    /\ eReqs = << >>
    /\ eHeader = None
    /\ eRenewals = 0
    /\ eReply = NoReply
    /\ eAtCall = Absent
    /\ eResult = "none"
    /\ eExc = "none"

EventsFrame ==
    /\ UNCHANGED <<aEnv, aPc, aCalls, aAtCall, aEnvRead, aFactory, aDrv, aPending,
                   aRaw, aResult, aExc, aPrev>>
    /\ UNCHANGED <<eSession, eCreds>>
    /\ UNCHANGED backendVars
    /\ UNCHANGED slugVars
    /\ UNCHANGED affVars
    /\ UNCHANGED fetchVars
    /\ UNCHANGED jobVars
    /\ UNCHANGED mainVars

\* fetch_events is called: _read_token() makes sure the payload is there
\* (bootstrapping it from GOOUT_TOKEN and the browser when it is not) and
\* reads token.txt for the Authorization header.
FetchEventsCall ==
    /\ ePc = "idle"
    /\ UNCHANGED <<eReqs, eRenewals, eReply>>
    /\ EventsFrame
    /\ IF payload_initialized(Payload3(aDir, aTokenFile, aCookiesFile))
       THEN /\ EventsGoesOn("get1")
            /\ eHeader' = strip_text(aTokenFile[1])
            /\ eAtCall' = aTokenFile
            /\ UNCHANGED <<aDir, aTokenFile, aCookiesFile>>
       ELSE /\ aDir' = TRUE
            /\ IF get_env_token(aEnv).exc # "none"
               THEN /\ EventsRaises(get_env_token(aEnv).exc)
                    /\ UNCHANGED <<aTokenFile, aCookiesFile, eHeader, eAtCall>>
               ELSE /\ aTokenFile' = Some(get_env_token(aEnv).token)
                    /\ \/ /\ EventsRaises("WebDriverException")
                          /\ UNCHANGED <<aCookiesFile, eHeader, eAtCall>>
                       \/ \E raw \in BootstrapLists :
                            /\ aCookiesFile' = Some(cookies_from(raw, << >>))
                            /\ EventsGoesOn("get1")
                            /\ eHeader' = strip_text(get_env_token(aEnv).token)
                            /\ eAtCall' = Some(get_env_token(aEnv).token)

\* The first GET and what its reply leads to.
EventsGet ==
    /\ ePc = "get1"
    /\ \E o \in GetReplies :
        /\ eReqs' = Append(eReqs, EventsRequest("GET", "myEvents", Bearer(eHeader),
                                                FALSE, o.status))
        /\ IF after_get("get1", o) = "renew" THEN EventsGoesOn("renew")
           ELSE IF after_get("get1", o) = "return" THEN EventsReturns
           ELSE EventsRaises(after_get("get1", o))
    /\ UNCHANGED <<aDir, aTokenFile, aCookiesFile, eHeader, eRenewals, eReply, eAtCall>>
    /\ EventsFrame

\* renew_token_from_env(session): the credentials, the login POST, the new
\* token written to token.txt and put into the Authorization header.
RenewToken ==
    /\ ePc = "renew"
    /\ eRenewals' = eRenewals + 1
    /\ IF ~eCreds
       THEN /\ EventsRaises("AuthenticationError")
            /\ UNCHANGED <<aDir, aTokenFile, eHeader, eReqs, eReply>>
       ELSE \E r \in RenewReplies :
            /\ eReqs' = Append(eReqs, EventsRequest("POST", "login", NoHeaders,
                                                    FALSE, r.status))
            /\ eReply' = r
            /\ IF renew_token_from_env(r).exc # "none"
               THEN /\ EventsRaises(renew_token_from_env(r).exc)
                    /\ UNCHANGED <<aDir, aTokenFile, eHeader>>
               ELSE /\ EventsGoesOn("get2")
                    /\ aDir' = TRUE
                    /\ aTokenFile' = Some(renew_token_from_env(r).token)
                    /\ eHeader' = renew_token_from_env(r).token
    /\ UNCHANGED <<aCookiesFile, eAtCall>>
    /\ EventsFrame

\* The retried GET: _read_cookies() finds the payload in place; the GET is
\* called with cookies=, which the session has to accept before anything
\* is sent.
EventsRetry ==
    /\ ePc = "get2"
    /\ IF ~accepts_cookies(eSession)
       THEN /\ EventsRaises("TypeError")
            /\ UNCHANGED eReqs
       ELSE \E o \in GetReplies :
            /\ eReqs' = Append(eReqs, EventsRequest("GET", "myEvents", Bearer(eHeader),
                                                    TRUE, o.status))
            /\ IF after_get("get2", o) = "renew" THEN EventsGoesOn("renew")
               ELSE IF after_get("get2", o) = "return" THEN EventsReturns
               ELSE EventsRaises(after_get("get2", o))
    /\ UNCHANGED <<aDir, aTokenFile, aCookiesFile, eHeader, eRenewals, eReply, eAtCall>>
    /\ EventsFrame

NextEvents ==
    \/ FetchEventsCall
    \/ EventsGet
    \/ RenewToken
    \/ EventsRetry

SpecEvents == InitEvents /\ [][NextEvents]_vars

EventsDone == ePc = "done"
IsGet(r) == r.method = "GET"
IsLoginPost(r) == r.method = "POST"
EventGets == SelectSeq(eReqs, IsGet)
RenewalPosts == SelectSeq(eReqs, IsLoginPost)
FirstUnauthorized == EventGets # << >> /\ EventGets[1].status = 401
Replied == eReply.kind \in {"invalid", "nonobj", "obj"}
HasRenewedToken ==
    /\ eReply.kind = "obj"
    /\ eReply.status = 200
    /\ reply_token(eReply) \notin {Absent, Some("")}
RenewalFailed ==
    /\ Replied
    /\ \/ eReply.status # 200
       \/ eReply.kind = "obj" /\ reply_token(eReply) \in {Absent, Some("")}

(***************************************************************************)
(* C24 as stated: fetch_events sends at most two GETs and at most one      *)
(* login POST; a 401 on the first GET starts exactly one renewal, nothing  *)
(* else starts one; a renewal that succeeded has written the new token to  *)
(* token.txt and is followed by the one retried GET, which carries the new *)
(* token; a renewal answered with a status other than 200 or with no token *)
(* raises AuthenticationError, with no second GET and token.txt as it was; *)
(* a 401 on the retried GET raises and starts no further renewal.          *)
(***************************************************************************)
C24_AsStated ==
    EventsDone =>
        /\ Len(EventGets) <= 2
        /\ Len(RenewalPosts) <= 1
        /\ eRenewals = (IF FirstUnauthorized THEN 1 ELSE 0)
        /\ HasRenewedToken =>
              /\ aTokenFile = Some(reply_token(eReply)[1])
              /\ Len(eReqs) = 3
              /\ eReqs[2].method = "POST"
              /\ eReqs[3].method = "GET"
              /\ eReqs[3].auth = Bearer(reply_token(eReply)[1])
        /\ RenewalFailed =>
              /\ eResult = "raised"
              /\ eExc = "AuthenticationError"
              /\ Len(EventGets) = 1
              /\ aTokenFile = eAtCall
        /\ (Len(EventGets) = 2 /\ EventGets[2].status = 401) =>
              /\ eResult = "raised"
              /\ eExc = "HTTPError"
              /\ eRenewals = 1

====
